---- MODULE Spec2Model ----
(***************************************************************************)
(* Signal throttle and position lifecycle of the trading bot:              *)
(*   signal_generator.py  SignalGenerator (throttle in the signals store)  *)
(*   database.py          Database (throttle, write queue and its worker)  *)
(*   position_tracker.py  PositionTracker (positions and signal limits)    *)
(*   main_enhanced.py     TradingBot (the two worker threads)              *)
(*   indicators.py        TechnicalIndicators: calculate_indicators, and   *)
(*                        _calculate_rsi and _calculate_ema on a frame     *)
(*   ai_model_enhanced.py EnhancedAIModel: predict and its three models    *)
(*   telegram_adapter.py  TelegramAdapter.send_signal_notification         *)
(*   database_manager.py  DatabaseManager.execute_query (retry on lock)    *)
(*                                                                         *)
(* SQL tables are sets of rows; a SELECT is a set comprehension, an INSERT *)
(* checks the table's key constraint first.  Wall-clock time is the        *)
(* counter now, in ticks of TicksPerDay per calendar day; the timestamp    *)
(* columns entry_time, exit_time, created_at and updated_at are not kept.  *)
(***************************************************************************)
EXTENDS Integers, Sequences, FiniteSets, TLC

Symbols == {"X", "Y"}

\* worker threads calling into SignalGenerator
NProcs == 4
Procs == 1..NProcs

\* clock: ticks per calendar day, and the last tick explored
TicksPerDay == 2
MaxTime == 3

\* calls of an increment function explored in one behaviour
MaxCalls == 6

Date(t) == t \div TicksPerDay

Dates == {Date(t) : t \in 0..MaxTime}

\* the increment functions whose return values are counted
Impls == {"SignalGenerator", "Database", "PositionTracker"}

VARIABLES
  now,            \* time.time() / datetime.now(), in ticks
  signal_counts,  \* signals store: table signal_counts, UNIQUE(symbol, date)
  pc,             \* per worker: position in SignalGenerator code
  inc,            \* per worker: frame of _increment_signal_count
  returned,       \* per (function, symbol, date): calls returned, and returned true
  ncalls,         \* increment calls started
  db_signal_counts,   \* Database: table signal_counts, symbol PRIMARY KEY
  signal_limits,      \* PositionTracker.signal_limits, symbol -> limit, count, last_reset
  signal_limits_tbl,  \* positions store: table signal_limits, symbol PRIMARY KEY
  positions,          \* positions store: table positions, id INTEGER PRIMARY KEY
  active_positions,   \* PositionTracker.active_positions, a dict in insertion order
  ret,                \* the last PositionTracker position operation and what it returned
  signals,            \* signals store: table signals, id AUTOINCREMENT
  gen,                \* per worker: frame of generate_signals
  emitted,            \* per (symbol, date): signals returned by generate_signals
  gcalls,             \* generate_signals calls started
  min_confidence,     \* SignalGenerator.min_confidence: {} while the attribute is unset
  components,         \* SignalGenerator.components: {} while the attribute is unset
  component_lock,     \* TradingBot.component_lock: the thread holding it, or "free"
  spc,                \* position of the _process_signals thread
  pass,               \* _process_signals: symbols of the pass, current symbol, timeframes done
  evaluated,          \* symbols (by index) whose loop body was entered in the pass
  tpc,                \* position of the _process_telegram_queue thread
  signal_queue,       \* TradingBot.signal_queue: the symbols of the queued signals
  puts,               \* signals put on signal_queue so far
  klines,             \* market_data store: kline_data rows of one (symbol, timeframe)
  indicator_rows,     \* technical_analysis store: indicators rows, by candle number
  snapshot,           \* what calculate_indicators returned last: {} for None
  indicators,         \* the indicators dict given to EnhancedAIModel.predict
  predictions,        \* what predict returned for it, call after call
  handed,             \* the calls of send_signal_notification so far, and how each ended
  closes,             \* column close_price of a frame given to _calculate_rsi
  rsi_col,            \* column rsi of that frame: {} for NaN
  emas,               \* columns ema_short, ema_medium, ema_long of a frame
  crossovers,         \* columns ema_crossover_short_medium and _medium_long of it
  threads,            \* a confirm_position and a close_position call running in two threads
  query,              \* a DatabaseManager.execute_query call, its connection and its table
  worker_thread       \* Database: running, queue, the worker's batch and the result queues

sgVars == <<signal_counts, pc, inc>>
quotaVars == <<signal_limits, signal_limits_tbl>>
posVars == <<positions, active_positions, ret>>
genVars == <<signals, gen, emitted, gcalls, min_confidence, components>>
botVars == <<component_lock, spc, pass, evaluated, tpc, signal_queue, puts, handed>>
indVars == <<klines, indicator_rows, snapshot>>
aiVars == <<indicators, predictions>>
colVars == <<closes, rsi_col, emas, crossovers>>
runVars == <<threads, query, worker_thread>>

vars == <<now, signal_counts, pc, inc, returned, ncalls, db_signal_counts,
          signal_limits, signal_limits_tbl, positions, active_positions, ret,
          signals, gen, emitted, gcalls, min_confidence, components,
          component_lock, spc, pass, evaluated, tpc, signal_queue, puts,
          klines, indicator_rows, snapshot, indicators, predictions, handed,
          closes, rsi_col, emas, crossovers, threads, query,
          worker_thread>>

IdleInc == [symbol |-> "X", today |-> 0, count |-> 0, max_count |-> 0, ret |-> "idle"]

NoSignal == [id |-> 0, direction |-> "NONE", confidence |-> 0, entry_price |-> 0]

IdleGen == [symbol |-> "X", left |-> 0, out |-> 0, signal |-> NoSignal]

IdlePass == [n |-> 0, k |-> 0, tf |-> 0]

\* an indicators dict without any key
NoIndicators ==
  [rsi |-> {}, rsi_text |-> FALSE, adx |-> {}, macd |-> {}, macd_signal |-> {},
   bollinger_bands |-> {}, ema_50 |-> {}, ema_short |-> {}, ema_medium |-> {}]

\* a frame without rows
NoEmas == [short |-> << >>, medium |-> << >>, long |-> << >>]

NoCrossovers == [short_medium |-> << >>, medium_long |-> << >>]

\* no confirm_position and no close_position call under way
IdleThreads ==
  [confirm |-> [at |-> "idle", x |-> 0, symbol |-> "", ok |-> FALSE],
   close |-> [at |-> "idle", symbol |-> "", id |-> 0, direction |-> "NONE",
              entry_price |-> 0, exit_price |-> 0, exit_reason |-> "", ok |-> FALSE]]

\* no execute_query call: pending counts the rows the statement has written
\* in the connection's open transaction, committed those of them in the
\* table, slept lists the delays in tenths of a second
IdleQuery ==
  [at |-> "idle", max_retries |-> 0, fetch |-> "none", commit |-> TRUE, attempt |-> 0,
   executions |-> 0, commit_failures |-> 0, pending |-> 0, committed |-> 0,
   slept |-> << >>, result |-> "none"]

\* operations handed to Database._queue_operation
MaxOps == 2
Ops == 1..MaxOps

\* Database.__init__, lines 14-23: running is True, the queue is empty and
\* the worker is at the top of its loop with an empty batch.  need tells how
\* an operation was submitted ("none" before), executed and results count
\* the runs of an operation and the tuples put on its result queue
NewWorker ==
  [running |-> TRUE, at |-> "loop", queue |-> << >>, batch |-> << >>,
   need |-> [o \in Ops |-> "none"], executed |-> [o \in Ops |-> 0],
   results |-> [o \in Ops |-> 0], faults |-> 0]

\* everything but the two attributes SignalGenerator.__init__ does not assign
InitCore ==
  /\ now = 0
  /\ worker_thread = NewWorker
  /\ signal_counts = {}
  /\ pc = [p \in Procs |-> "idle"]
  /\ inc = [p \in Procs |-> IdleInc]
  /\ returned = [k \in Impls \X Symbols \X Dates |-> [n |-> 0, t |-> 0]]
  /\ ncalls = 0
  /\ db_signal_counts = {}
  /\ signal_limits = << >>
  /\ signal_limits_tbl = {}
  /\ positions = {}
  /\ active_positions = << >>
  /\ ret = [op |-> "none", arg |-> 0, ok |-> FALSE, id |-> 0]
  /\ signals = {}
  /\ gen = [p \in Procs |-> IdleGen]
  /\ emitted = [k \in Symbols \X Dates |-> 0]
  /\ gcalls = 0
  /\ component_lock = "free"
  /\ spc = "start"
  /\ pass = IdlePass
  /\ evaluated = {}
  /\ tpc = [at |-> "get", symbol |-> "X", id |-> 0]
  /\ handed = << >>
  /\ signal_queue = << >>
  /\ puts = 0
  /\ klines = 0
  /\ indicator_rows = {}
  /\ snapshot = {}
  /\ threads = IdleThreads

\* the stores, and no frame under computation
InitStores ==
  /\ InitCore
  /\ query = IdleQuery
  /\ closes = << >>
  /\ rsi_col = << >>
  /\ emas = NoEmas
  /\ crossovers = NoCrossovers

\* the state after the constructors
Init ==
  /\ InitStores
  /\ min_confidence = {}
  /\ components = {}
  /\ indicators = NoIndicators
  /\ predictions = << >>

\* the clock advances
Tick ==
  /\ now < MaxTime
  /\ now' = now + 1
  /\ UNCHANGED <<sgVars, returned, ncalls, db_signal_counts, quotaVars, posVars, genVars, botVars, indVars, aiVars, colVars, runVars>>

\* one more return value of an increment function
Record(impl, s, d, ok) ==
  [returned EXCEPT ![<<impl, s, d>>] =
      [n |-> @.n + 1, t |-> @.t + (IF ok THEN 1 ELSE 0)]]

----------------------------------------------------------------------------
(* SignalGenerator._increment_signal_count: a SELECT and then a write, each *)
(* its own DatabaseManager.execute_query call (own commit).                 *)

\* SELECT count, max_count FROM signal_counts WHERE symbol = ? AND date = ?
SGSelect(s, d) == {r \in signal_counts : r.symbol = s /\ r.date = d}

\* max_count = max_count or 3
OrThree(m) == IF m = 0 THEN 3 ELSE m

\* the call starts: today = datetime.now().strftime("%Y-%m-%d")
IncCall(p, s) ==
  /\ pc[p] = "idle"
  /\ ncalls < MaxCalls
  /\ ncalls' = ncalls + 1
  /\ pc' = [pc EXCEPT ![p] = "inc_select"]
  /\ inc' = [inc EXCEPT ![p] =
        [symbol |-> s, today |-> Date(now), count |-> 0, max_count |-> 0, ret |-> "idle"]]
  /\ UNCHANGED <<now, signal_counts, returned, db_signal_counts, quotaVars, posVars, genVars, botVars, indVars, aiVars, colVars, runVars>>

\* the value is returned to the caller
IncReturn(p, ok) ==
  /\ returned' = Record("SignalGenerator", inc[p].symbol, inc[p].today, ok)
  /\ pc' = [pc EXCEPT ![p] = inc[p].ret]

\* the SELECT, and the branch on its result
IncSelect(p) ==
  /\ pc[p] = "inc_select"
  /\ LET rows == SGSelect(inc[p].symbol, inc[p].today) IN
       IF rows = {}
       THEN /\ pc' = [pc EXCEPT ![p] = "inc_insert"]
            /\ UNCHANGED <<inc, returned>>
       ELSE LET r == CHOOSE r \in rows : TRUE IN
            IF r.count < OrThree(r.max_count)
            THEN /\ pc' = [pc EXCEPT ![p] = "inc_update"]
                 /\ inc' = [inc EXCEPT ![p].count = r.count,
                                       ![p].max_count = OrThree(r.max_count)]
                 /\ UNCHANGED returned
            ELSE /\ IncReturn(p, FALSE)
                 /\ UNCHANGED inc
  /\ UNCHANGED <<now, signal_counts, ncalls, db_signal_counts, quotaVars, posVars, genVars, botVars, indVars, aiVars, colVars, runVars>>

\* UPDATE signal_counts SET count = ? WHERE symbol = ? AND date = ?
IncUpdate(p) ==
  /\ pc[p] = "inc_update"
  /\ signal_counts' =
       {IF r.symbol = inc[p].symbol /\ r.date = inc[p].today
        THEN [r EXCEPT !.count = inc[p].count + 1] ELSE r : r \in signal_counts}
  /\ IncReturn(p, TRUE)
  /\ UNCHANGED <<now, inc, ncalls, db_signal_counts, quotaVars, posVars, genVars, botVars, indVars, aiVars, colVars, runVars>>

\* INSERT INTO signal_counts (symbol, count, date, max_count) VALUES (?, 1, ?, 3);
\* a second row for (symbol, date) is an IntegrityError, caught: return False
IncInsert(p) ==
  /\ pc[p] = "inc_insert"
  /\ IF SGSelect(inc[p].symbol, inc[p].today) = {}
     THEN /\ signal_counts' = signal_counts \cup
               {[symbol |-> inc[p].symbol, date |-> inc[p].today,
                 count |-> 1, max_count |-> 3]}
          /\ IncReturn(p, TRUE)
     ELSE /\ IncReturn(p, FALSE)
          /\ UNCHANGED signal_counts
  /\ UNCHANGED <<now, inc, ncalls, db_signal_counts, quotaVars, posVars, genVars, botVars, indVars, aiVars, colVars, runVars>>

----------------------------------------------------------------------------
(* Database.increment_signal_count: the closure _increment_count is queued  *)
(* and run by the single worker thread (_process_queue), which executes the *)
(* operations of its batch one after the other; the caller blocks on the    *)
(* result.  The operation is therefore one step.                            *)

\* SELECT count, max_count FROM signal_counts WHERE symbol = ? AND date = ?
DbSelect(s, d) == {r \in db_signal_counts : r.symbol = s /\ r.date = d}

\* _increment_count(conn): the table after the operation
DbIncrementTable(s, d) ==
  LET rows == DbSelect(s, d) IN
  IF rows # {}
  THEN LET r == CHOOSE r \in rows : TRUE IN
       IF r.count < OrThree(r.max_count)
       THEN {IF q.symbol = s /\ q.date = d THEN [q EXCEPT !.count = r.count + 1] ELSE q
             : q \in db_signal_counts}
       ELSE db_signal_counts
  ELSE IF \E q \in db_signal_counts : q.symbol = s
       THEN db_signal_counts      \* INSERT violates PRIMARY KEY(symbol)
       ELSE db_signal_counts \cup {[symbol |-> s, date |-> d, count |-> 1, max_count |-> 3]}

\* the value increment_signal_count returns: (False, error) from the worker is
\* raised by _queue_operation and caught, giving False
DbIncrementResult(s, d) ==
  LET rows == DbSelect(s, d) IN
  IF rows # {}
  THEN LET r == CHOOSE r \in rows : TRUE IN r.count < OrThree(r.max_count)
  ELSE ~ \E q \in db_signal_counts : q.symbol = s

DbIncrement(s) ==
  /\ ncalls < MaxCalls
  /\ ncalls' = ncalls + 1
  /\ db_signal_counts' = DbIncrementTable(s, Date(now))
  /\ returned' = Record("Database", s, Date(now), DbIncrementResult(s, Date(now)))
  /\ UNCHANGED <<now, sgVars, quotaVars, posVars, genVars, botVars, indVars, aiVars, colVars, runVars>>

\* Database.set_max_signals: _set_max_signals(conn) on the worker; an INSERT
\* that violates PRIMARY KEY(symbol) raises and the call returns False
DbSetMaxSignals(s, max_count) ==
  /\ db_signal_counts' =
       IF DbSelect(s, Date(now)) # {}
       THEN {IF q.symbol = s /\ q.date = Date(now) THEN [q EXCEPT !.max_count = max_count]
             ELSE q : q \in db_signal_counts}
       ELSE IF \E q \in db_signal_counts : q.symbol = s
            THEN db_signal_counts
            ELSE db_signal_counts \cup
                   {[symbol |-> s, date |-> Date(now), count |-> 0, max_count |-> max_count]}
  /\ UNCHANGED <<now, sgVars, returned, ncalls, quotaVars, posVars, genVars, botVars,
                 indVars, aiVars, colVars, runVars>>

----------------------------------------------------------------------------
(* PositionTracker: signal limits                                           *)

\* 86400 seconds
ResetAge == TicksPerDay

DefaultLimit == 5

\* _reset_old_signal_counts, in memory
ResetOldMem(lim, t) ==
  [s \in DOMAIN lim |->
     IF t - lim[s].last_reset >= ResetAge
     THEN [lim[s] EXCEPT !.count = 0, !.last_reset = t] ELSE lim[s]]

\* _reset_old_signal_counts, the UPDATE of each reset symbol
ResetOldTbl(lim, tbl, t) ==
  {IF r.symbol \in DOMAIN lim /\ t - lim[r.symbol].last_reset >= ResetAge
   THEN [r EXCEPT !.count = 0, !.last_reset = t] ELSE r : r \in tbl}

\* the default entry of a symbol not yet in signal_limits
WithDefault(lim, s, t) ==
  IF s \in DOMAIN lim THEN lim
  ELSE [x \in DOMAIN lim \cup {s} |->
          IF x = s THEN [limit |-> DefaultLimit, count |-> 0, last_reset |-> t] ELSE lim[x]]

\* INSERT INTO signal_limits ... ON CONFLICT(symbol) DO UPDATE SET count = ?
UpsertCount(tbl, s, limit, count, t) ==
  IF \E r \in tbl : r.symbol = s
  THEN {IF r.symbol = s THEN [r EXCEPT !.count = count] ELSE r : r \in tbl}
  ELSE tbl \cup {[symbol |-> s, limit_value |-> limit, count |-> count, last_reset |-> t]}

\* PositionTracker.increment_signal_count: its effect
TrackerIncrementOp(s) ==
  LET lim0 == WithDefault(ResetOldMem(signal_limits, now), s, now)
      lim1 == [lim0 EXCEPT ![s].count = @ + 1]
      count == lim1[s].count
      limit == lim1[s].limit
  IN /\ signal_limits' = lim1
     /\ signal_limits_tbl' =
          UpsertCount(ResetOldTbl(signal_limits, signal_limits_tbl, now), s, limit, count, now)
     /\ returned' = Record("PositionTracker", s, Date(now), count <= limit)

\* PositionTracker.increment_signal_count, called from outside
TrackerIncrement(s) ==
  /\ ncalls < MaxCalls
  /\ ncalls' = ncalls + 1
  /\ TrackerIncrementOp(s)
  /\ UNCHANGED <<now, sgVars, db_signal_counts, posVars, genVars, botVars, indVars, aiVars, colVars, runVars>>

\* limits a user may set ("Signal: N")
Limits == 0..2

\* PositionTracker.update_signal_limit
UpdateSignalLimit(s, l) ==
  /\ signal_limits_tbl' =
       IF \E r \in signal_limits_tbl : r.symbol = s
       THEN {IF r.symbol = s THEN [r EXCEPT !.limit_value = l] ELSE r : r \in signal_limits_tbl}
       ELSE signal_limits_tbl \cup
              {[symbol |-> s, limit_value |-> l, count |-> 0, last_reset |-> now]}
  /\ signal_limits' =
       IF s \in DOMAIN signal_limits
       THEN [signal_limits EXCEPT ![s].limit = l]
       ELSE [x \in DOMAIN signal_limits \cup {s} |->
               IF x = s THEN [limit |-> l, count |-> 0, last_reset |-> now]
               ELSE signal_limits[x]]
  /\ UNCHANGED <<now, sgVars, returned, ncalls, db_signal_counts, posVars, genVars, botVars, indVars, aiVars, colVars, runVars>>

----------------------------------------------------------------------------
(* PositionTracker: positions.  Each operation writes the positions table    *)
(* and then active_positions; a NULL column is the empty set.               *)

\* positions rows explored (ids 1..MaxPositions)
MaxPositions == 3

\* signal ids a caller passes to add_position
MaxSignalId == 3
SignalIds == 1..MaxSignalId

\* direction and entry price of the positions created
Orders == {[direction |-> "LONG", price |-> 100], [direction |-> "SHORT", price |-> 99]}

ExitPrices == {110}
ExitReasons == {"Manual exit"}

\* numbers a caller may pass to confirm_position
ConfirmIds == 1..(MaxPositions + 1)

\* index of symbol s in the dict, 0 if absent
IndexOf(act, s) ==
  IF \E i \in 1..Len(act) : act[i].symbol = s
  THEN CHOOSE i \in 1..Len(act) : act[i].symbol = s
  ELSE 0

\* has_active_position: symbol in self.active_positions
has_active_position(s) == IndexOf(active_positions, s) # 0

\* self.active_positions[symbol] = {...}: a present key keeps its place
DictPut(act, e) ==
  IF IndexOf(act, e.symbol) # 0
  THEN [act EXCEPT ![IndexOf(act, e.symbol)] = e]
  ELSE Append(act, e)

\* del self.active_positions[symbol]
DictDel(act, s) == SelectSeq(act, LAMBDA e : e.symbol # s)

\* cursor.lastrowid of an INSERT into positions (rows are never deleted)
NextRowId == Cardinality(positions) + 1

\* PositionTracker.add_position(symbol, price, direction, signal_id)
AddPosition(s, price, direction, signal_id) ==
  /\ NextRowId <= MaxPositions
  /\ positions' = positions \cup
       {[id |-> NextRowId, symbol |-> s, position_type |-> direction,
         entry_price |-> price, signal_id |-> signal_id, status |-> "OPEN",
         confirmed |-> 0, exit_price |-> {}, profit_loss_percent |-> {},
         exit_reason |-> {}]}
  /\ active_positions' = DictPut(active_positions,
       [symbol |-> s, id |-> NextRowId, direction |-> direction,
        entry_price |-> price, signal_id |-> signal_id, confirmed |-> FALSE])
  /\ ret' = [op |-> "add_position", arg |-> signal_id, ok |-> TRUE, id |-> NextRowId]

\* the loop of confirm_position: first entry whose id or signal_id is x, 0 if none
FindPosition(act, x) ==
  IF \E i \in 1..Len(act) : act[i].id = x \/ act[i].signal_id = x
  THEN CHOOSE i \in 1..Len(act) :
         /\ act[i].id = x \/ act[i].signal_id = x
         /\ \A j \in 1..(i - 1) : ~(act[j].id = x \/ act[j].signal_id = x)
  ELSE 0

\* rows matched by UPDATE positions SET confirmed = 1 WHERE id = ? OR signal_id = ?
ConfirmMatches(x) == {r \in positions : r.id = x \/ r.signal_id = x}

\* PositionTracker.confirm_position(position_id)
ConfirmPosition(x) ==
  LET i == FindPosition(active_positions, x) IN
  IF i = 0 \/ ConfirmMatches(x) = {}
  THEN /\ ret' = [op |-> "confirm_position", arg |-> x, ok |-> FALSE, id |-> 0]
       /\ UNCHANGED <<positions, active_positions>>
  ELSE /\ positions' = {IF r \in ConfirmMatches(x) THEN [r EXCEPT !.confirmed = 1] ELSE r
                        : r \in positions}
       /\ active_positions' = [active_positions EXCEPT ![i].confirmed = TRUE]
       /\ ret' = [op |-> "confirm_position", arg |-> x, ok |-> TRUE, id |-> active_positions[i].id]

\* profit or loss in hundredths of a percent, rounded down
ProfitPct(direction, entry, price) ==
  IF direction = "LONG" THEN ((price - entry) * 10000) \div entry
  ELSE ((entry - price) * 10000) \div entry

\* close_position with the LONG formula used for every direction
ClosePositionLongOnly(s, exit_price, exit_reason) ==
  LET i == IndexOf(active_positions, s) IN
  IF i = 0
  THEN /\ ret' = [op |-> "close_position", arg |-> 0, ok |-> FALSE, id |-> 0]
       /\ UNCHANGED <<positions, active_positions>>
  ELSE LET position == active_positions[i]
           profit_pct == ProfitPct("LONG", position.entry_price, exit_price)
       IN /\ positions' =
               {IF r.id = position.id
                THEN [r EXCEPT !.exit_price = {exit_price}, !.status = "CLOSED",
                               !.profit_loss_percent = {profit_pct},
                               !.exit_reason = {exit_reason}]
                ELSE r : r \in positions}
          /\ active_positions' = DictDel(active_positions, s)
          /\ ret' = [op |-> "close_position", arg |-> position.id, ok |-> TRUE, id |-> position.id]

\* PositionTracker.close_position(symbol, exit_price, exit_reason)
ClosePosition(s, exit_price, exit_reason) ==
  LET i == IndexOf(active_positions, s) IN
  IF i = 0
  THEN /\ ret' = [op |-> "close_position", arg |-> 0, ok |-> FALSE, id |-> 0]
       /\ UNCHANGED <<positions, active_positions>>
  ELSE LET position == active_positions[i]
           profit_pct == ProfitPct(position.direction, position.entry_price, exit_price)
       IN /\ positions' =
               {IF r.id = position.id
                THEN [r EXCEPT !.exit_price = {exit_price}, !.status = "CLOSED",
                               !.profit_loss_percent = {profit_pct},
                               !.exit_reason = {exit_reason}]
                ELSE r : r \in positions}
          /\ active_positions' = DictDel(active_positions, s)
          /\ ret' = [op |-> "close_position", arg |-> position.id, ok |-> TRUE, id |-> position.id]

\* _load_active_positions over the rows with id k and above, in rowid
\* order: each OPEN row is stored under its symbol, a later row replacing
\* an earlier one of the same symbol
RECURSIVE LoadFrom(_, _, _)
LoadFrom(tbl, k, act) ==
  IF k > Cardinality(tbl) THEN act
  ELSE LET r == CHOOSE row \in tbl : row.id = k IN
       LoadFrom(tbl, k + 1,
                IF r.status = "OPEN"
                THEN DictPut(act, [symbol |-> r.symbol, id |-> r.id,
                                   direction |-> r.position_type,
                                   entry_price |-> r.entry_price,
                                   signal_id |-> r.signal_id,
                                   confirmed |-> (r.confirmed = 1)])
                ELSE act)

\* active_positions of a tracker constructed over the table
LoadActivePositions(tbl) == LoadFrom(tbl, 1, << >>)

\* the operations as called from outside the tracker
PosFrame == UNCHANGED <<now, sgVars, returned, ncalls, db_signal_counts, quotaVars, genVars, botVars, indVars, aiVars, colVars, runVars>>

\* a signal id is the key of a saved signal (AUTOINCREMENT) and is passed to
\* add_position for at most one position
UnusedSignalId(g) == \A r \in positions : r.signal_id # g

DoAddPosition ==
  \E s \in Symbols, o \in Orders, g \in SignalIds :
    UnusedSignalId(g) /\ AddPosition(s, o.price, o.direction, g) /\ PosFrame

DoConfirmPosition == \E x \in ConfirmIds : ConfirmPosition(x) /\ PosFrame

\* positions created where the exit evaluation is explored
MaxSignalled == 2

\* add_position as generate_signals calls it: the signal id is the key the
\* signals store has just handed out, the next one in sequence
DoAddSignalled ==
  \E s \in Symbols, o \in Orders :
    /\ NextRowId <= MaxSignalled
    /\ AddPosition(s, o.price, o.direction, NextRowId)
    /\ PosFrame

DoClosePosition ==
  \E s \in Symbols, e \in ExitPrices, why \in ExitReasons :
    ClosePosition(s, e, why) /\ PosFrame

\* confirm_position and close_position called from two threads: the tracker
\* takes no lock, so the threads interleave between the reads of
\* active_positions, the UPDATE with its commit, and the write to
\* active_positions
ThreadFrame == UNCHANGED <<now, sgVars, returned, ncalls, db_signal_counts, quotaVars,
                           genVars, botVars, indVars, aiVars, colVars, query,
                           worker_thread>>

\* lines 160-168: the loop over active_positions
CfFind(x) ==
  /\ threads.confirm.at = "idle"
  /\ LET i == FindPosition(active_positions, x) IN
     threads' = [threads EXCEPT !.confirm =
                   IF i = 0
                   THEN [at |-> "done", x |-> x, symbol |-> "", ok |-> FALSE]
                   ELSE [at |-> "update", x |-> x,
                         symbol |-> active_positions[i].symbol, ok |-> FALSE]]
  /\ UNCHANGED posVars
  /\ ThreadFrame

\* lines 171-186: the UPDATE, rowcount, commit
CfUpdate ==
  /\ threads.confirm.at = "update"
  /\ IF ConfirmMatches(threads.confirm.x) = {}
     THEN /\ threads' = [threads EXCEPT !.confirm.at = "done"]
          /\ UNCHANGED positions
     ELSE /\ positions' = {IF r \in ConfirmMatches(threads.confirm.x)
                            THEN [r EXCEPT !.confirmed = 1] ELSE r : r \in positions}
          /\ threads' = [threads EXCEPT !.confirm.at = "memory"]
  /\ UNCHANGED <<active_positions, ret>>
  /\ ThreadFrame

\* line 189: if symbol in self.active_positions
CfCheck ==
  /\ threads.confirm.at = "memory"
  /\ threads' = [threads EXCEPT !.confirm =
                   IF has_active_position(threads.confirm.symbol)
                   THEN [@ EXCEPT !.at = "assign"]
                   ELSE [@ EXCEPT !.at = "done", !.ok = TRUE]]
  /\ UNCHANGED posVars
  /\ ThreadFrame

\* line 190, then return True; a key deleted since the check raises
\* KeyError and line 196 returns False
CfAssign ==
  /\ threads.confirm.at = "assign"
  /\ LET i == IndexOf(active_positions, threads.confirm.symbol) IN
     IF i = 0
     THEN /\ threads' = [threads EXCEPT !.confirm.at = "done"]
          /\ UNCHANGED active_positions
     ELSE /\ active_positions' = [active_positions EXCEPT ![i].confirmed = TRUE]
          /\ threads' = [threads EXCEPT !.confirm.at = "done", !.confirm.ok = TRUE]
  /\ UNCHANGED <<positions, ret>>
  /\ ThreadFrame

\* lines 200-211: the membership test and position = active_positions[symbol]
ClBegin(s, exit_price, exit_reason) ==
  /\ threads.close.at = "idle"
  /\ LET i == IndexOf(active_positions, s) IN
     threads' = [threads EXCEPT !.close =
                   IF i = 0
                   THEN [@ EXCEPT !.at = "done", !.symbol = s]
                   ELSE [at |-> "update", symbol |-> s, id |-> active_positions[i].id,
                         direction |-> active_positions[i].direction,
                         entry_price |-> active_positions[i].entry_price,
                         exit_price |-> exit_price, exit_reason |-> exit_reason,
                         ok |-> FALSE]]
  /\ UNCHANGED posVars
  /\ ThreadFrame

\* lines 214-232: the UPDATE and its commit
ClUpdate ==
  /\ threads.close.at = "update"
  /\ LET c == threads.close IN
     positions' =
       {IF r.id = c.id
        THEN [r EXCEPT !.exit_price = {c.exit_price}, !.status = "CLOSED",
                       !.profit_loss_percent =
                         {ProfitPct(c.direction, c.entry_price, c.exit_price)},
                       !.exit_reason = {c.exit_reason}]
        ELSE r : r \in positions}
  /\ threads' = [threads EXCEPT !.close.at = "delete"]
  /\ UNCHANGED <<active_positions, ret>>
  /\ ThreadFrame

\* lines 235-238: del self.active_positions[symbol], return True
ClDelete ==
  /\ threads.close.at = "delete"
  /\ active_positions' = DictDel(active_positions, threads.close.symbol)
  /\ threads' = [threads EXCEPT !.close.at = "done", !.close.ok = TRUE]
  /\ UNCHANGED <<positions, ret>>
  /\ ThreadFrame

\* current prices and RSI readings given to check_exit_conditions; an
\* indicators argument that is None or has no 'rsi' key is the empty set
CheckPrices == {89, 95, 100, 110}
RsiReadings == {{}, {20}, {80}}

\* the thresholds of the exit rules, in percent and RSI points
TakeProfitPct == 10
StopLossPct == 0 - 5
RsiOverbought == 75
RsiOversold == 25

\* check_exit_conditions returns None
NoExit == [op |-> "check_exit_conditions", arg |-> 0, ok |-> FALSE, id |-> 0]

\* the chain with the RSI rule tried before the profit and loss rules
ExitReasonRsiFirst(direction, entry, price, rsi) ==
  LET gain == IF direction = "LONG" THEN price - entry ELSE entry - price IN
  IF direction = "LONG" /\ (\E v \in rsi : v > RsiOverbought) THEN "RSI overbought"
  ELSE IF direction = "SHORT" /\ (\E v \in rsi : v < RsiOversold) THEN "RSI oversold"
  ELSE IF gain * 100 >= TakeProfitPct * entry THEN "Take profit hit"
  ELSE IF gain * 100 <= StopLossPct * entry THEN "Stop loss hit"
  ELSE ""

\* the if / elif chain of check_exit_conditions: the exit reason, "" for None.
\* profit_pct >= 10 and profit_pct <= -5 are compared on the exact quotient.
ExitReason(direction, entry, price, rsi) ==
  LET gain == IF direction = "LONG" THEN price - entry ELSE entry - price IN
  IF gain * 100 >= TakeProfitPct * entry THEN "Take profit hit"
  ELSE IF gain * 100 <= StopLossPct * entry THEN "Stop loss hit"
  ELSE IF rsi # {}
  THEN IF direction = "LONG" /\ (\E v \in rsi : v > RsiOverbought) THEN "RSI overbought"
       ELSE IF direction = "SHORT" /\ (\E v \in rsi : v < RsiOversold) THEN "RSI oversold"
       ELSE ""
  ELSE ""

\* check_exit_conditions without the test of the confirmed flag
CheckExitUnconfirmed(s, current_price, rsi) ==
  LET i == IndexOf(active_positions, s) IN
  /\ ret' =
       IF i = 0 THEN NoExit
       ELSE LET position == active_positions[i]
                exit_reason == ExitReason(position.direction, position.entry_price,
                                          current_price, rsi)
            IN IF exit_reason = "" THEN NoExit
               ELSE [op |-> "check_exit_conditions", arg |-> 0, ok |-> TRUE,
                     id |-> position.id, symbol |-> s, exit_price |-> current_price,
                     profit_pct |-> ProfitPct(position.direction, position.entry_price,
                                              current_price),
                     reason |-> exit_reason]
  /\ UNCHANGED <<positions, active_positions>>

\* check_exit_conditions carrying out the exit it recommends
CheckExitClosing(s, current_price, rsi) ==
  LET i == IndexOf(active_positions, s)
      exit_reason == IF i = 0 \/ ~active_positions[i].confirmed THEN ""
                     ELSE ExitReason(active_positions[i].direction,
                                     active_positions[i].entry_price, current_price, rsi)
  IN IF exit_reason = ""
     THEN ret' = NoExit /\ UNCHANGED <<positions, active_positions>>
     ELSE LET position == active_positions[i] IN
          /\ ret' = [op |-> "check_exit_conditions", arg |-> 0, ok |-> TRUE,
                     id |-> position.id, symbol |-> s, exit_price |-> current_price,
                     profit_pct |-> ProfitPct(position.direction, position.entry_price,
                                              current_price),
                     reason |-> exit_reason]
          /\ positions' = {IF r.id = position.id
                           THEN [r EXCEPT !.exit_price = {current_price},
                                          !.status = "CLOSED",
                                          !.exit_reason = {exit_reason}]
                           ELSE r : r \in positions}
          /\ active_positions' = DictDel(active_positions, s)

\* PositionTracker.check_exit_conditions(symbol, current_price, indicators)
CheckExitConditions(s, current_price, rsi) ==
  LET i == IndexOf(active_positions, s) IN
  /\ ret' =
       IF i = 0 THEN NoExit
       ELSE IF ~active_positions[i].confirmed THEN NoExit
       ELSE LET position == active_positions[i]
                exit_reason == ExitReason(position.direction, position.entry_price,
                                          current_price, rsi)
            IN IF exit_reason = "" THEN NoExit
               ELSE [op |-> "check_exit_conditions", arg |-> 0, ok |-> TRUE,
                     id |-> position.id, symbol |-> s, exit_price |-> current_price,
                     profit_pct |-> ProfitPct(position.direction, position.entry_price,
                                              current_price),
                     reason |-> exit_reason]
  /\ UNCHANGED <<positions, active_positions>>

DoCheckExitConditions ==
  \E s \in Symbols, c \in CheckPrices, rsi \in RsiReadings :
    CheckExitConditions(s, c, rsi) /\ PosFrame

----------------------------------------------------------------------------
(* The same operations when the positions store raises (sqlite3.Error on     *)
(* connect, execute or commit): the statement has no effect and the except   *)
(* branch of the operation returns.                                          *)

\* add_position: the INSERT raises at lines 118-138, line 154 returns None
AddPositionFails(s, price, direction, signal_id) ==
  /\ ret' = [op |-> "add_position", arg |-> signal_id, ok |-> FALSE, id |-> 0]
  /\ UNCHANGED <<positions, active_positions>>

\* confirm_position: the position is found, the UPDATE raises at lines
\* 171-186, line 196 returns False
ConfirmPositionFails(x) ==
  /\ FindPosition(active_positions, x) # 0
  /\ ret' = [op |-> "confirm_position", arg |-> x, ok |-> FALSE, id |-> 0]
  /\ UNCHANGED <<positions, active_positions>>

\* close_position: the symbol is held, the UPDATE raises at lines 214-232,
\* line 241 returns False
ClosePositionFails(s, exit_price, exit_reason) ==
  /\ has_active_position(s)
  /\ ret' = [op |-> "close_position", arg |-> 0, ok |-> FALSE, id |-> 0]
  /\ UNCHANGED <<positions, active_positions>>

\* increment_signal_count: the sweep and the increment are done in memory, the
\* writes of lines 344-354 and 304-322 raise, line 330 returns False
TrackerIncrementFails(s) ==
  LET lim0 == WithDefault(ResetOldMem(signal_limits, now), s, now) IN
  /\ ncalls < MaxCalls
  /\ ncalls' = ncalls + 1
  /\ signal_limits' = [lim0 EXCEPT ![s].count = @ + 1]
  /\ returned' = Record("PositionTracker", s, Date(now), FALSE)
  /\ UNCHANGED <<now, sgVars, db_signal_counts, signal_limits_tbl, posVars, genVars, botVars, indVars, aiVars, colVars, runVars>>

DoAddPositionFails ==
  \E s \in Symbols, o \in Orders :
    AddPositionFails(s, o.price, o.direction, NextRowId) /\ PosFrame

DoConfirmPositionFails == \E x \in ConfirmIds : ConfirmPositionFails(x) /\ PosFrame

DoClosePositionFails ==
  \E s \in Symbols, e \in ExitPrices, why \in ExitReasons :
    ClosePositionFails(s, e, why) /\ PosFrame

----------------------------------------------------------------------------
(* SignalGenerator.generate_signals, one step per access to a store.  The   *)
(* collaborators indicators and ai_model are given to the constructor; what *)
(* they return for a timeframe is chosen when the loop reaches it.          *)
(* Confidence is in hundredths: 95 is 0.95, 8000 is 80.0.                   *)

\* timeframes passed to one call, and calls explored
MaxTimeframes == 2
MaxGenCalls == 2

\* _can_generate_signal: no row yet, or count < max_count
CanGenerate(s, d) == \A r \in SGSelect(s, d) : r.count < r.max_count

\* what calculate_indicators and predict give for one timeframe: nothing, or a
\* prediction below min_confidence, in the range of EnhancedAIModel, or on a
\* percent scale
Predictions ==
  {[direction |-> "NONE", confidence |-> 0, entry_price |-> 0],
   [direction |-> "LONG", confidence |-> 60, entry_price |-> 100],
   [direction |-> "LONG", confidence |-> 95, entry_price |-> 100],
   [direction |-> "LONG", confidence |-> 8000, entry_price |-> 100],
   [direction |-> "SHORT", confidence |-> 8000, entry_price |-> 99]}

NoPrediction(pr) == pr.confidence = 0

\* signal['confidence'] > 70
TrackThreshold == 70 * 100

\* cursor.lastrowid of the INSERT into signals
NextSignalId == Cardinality(signals) + 1

\* generate_signals returns its list (or [] from the except branch)
GenReturnWith(p, n) ==
  /\ emitted' = [emitted EXCEPT ![<<gen[p].symbol, Date(now)>>] = @ + n]
  /\ pc' = [pc EXCEPT ![p] = "idle"]
  /\ gen' = [gen EXCEPT ![p] = IdleGen]

\* lines 81-90: the call starts with the throttle check
GenCall(p, s, n) ==
  /\ pc[p] = "idle"
  /\ gcalls < MaxGenCalls
  /\ gcalls' = gcalls + 1
  /\ IF CanGenerate(s, Date(now))
     THEN /\ pc' = [pc EXCEPT ![p] = "gen_loop"]
          /\ gen' = [gen EXCEPT ![p] = [symbol |-> s, left |-> n, out |-> 0, signal |-> NoSignal]]
     ELSE /\ pc' = pc
          /\ gen' = gen
  /\ UNCHANGED <<now, signal_counts, inc, returned, ncalls, db_signal_counts, quotaVars,
                 posVars, signals, emitted, min_confidence, components, botVars, indVars, aiVars, colVars, runVars>>

\* line 162: all timeframes done
GenReturn(p) ==
  /\ pc[p] = "gen_loop"
  /\ gen[p].left = 0
  /\ GenReturnWith(p, gen[p].out)
  /\ UNCHANGED <<now, signal_counts, inc, returned, ncalls, db_signal_counts, quotaVars,
                 posVars, signals, gcalls, min_confidence, components, botVars, indVars, aiVars, colVars, runVars>>

\* lines 92-130: one timeframe up to the saved signal
GenPredict(p, pr) ==
  /\ pc[p] = "gen_loop"
  /\ gen[p].left > 0
  /\ IF NoPrediction(pr)
     THEN \* continue
          /\ gen' = [gen EXCEPT ![p].left = @ - 1]
          /\ UNCHANGED <<pc, inc, signals, emitted>>
     ELSE IF min_confidence = {}
     THEN \* AttributeError, caught at line 164: return []
          /\ GenReturnWith(p, 0)
          /\ UNCHANGED <<inc, signals>>
     ELSE IF \E m \in min_confidence : pr.confidence < m
     THEN /\ gen' = [gen EXCEPT ![p].left = @ - 1]
          /\ UNCHANGED <<pc, inc, signals, emitted>>
     ELSE \* _save_signal, signals.append, then _increment_signal_count
          /\ signals' = signals \cup
               {[id |-> NextSignalId, symbol |-> gen[p].symbol, direction |-> pr.direction,
                 entry_price |-> pr.entry_price, confidence |-> pr.confidence,
                 date |-> Date(now), status |-> "OPEN"]}
          /\ gen' = [gen EXCEPT ![p].left = @ - 1, ![p].out = @ + 1,
                                ![p].signal = [id |-> NextSignalId, direction |-> pr.direction,
                                               confidence |-> pr.confidence,
                                               entry_price |-> pr.entry_price]]
          /\ inc' = [inc EXCEPT ![p] = [symbol |-> gen[p].symbol, today |-> Date(now),
                                        count |-> 0, max_count |-> 0, ret |-> "gen_track"]]
          /\ pc' = [pc EXCEPT ![p] = "inc_select"]
          /\ UNCHANGED emitted
  /\ UNCHANGED <<now, signal_counts, returned, ncalls, db_signal_counts, quotaVars,
                 posVars, gcalls, min_confidence, components, botVars, indVars, aiVars, colVars, runVars>>

\* lines 133-139: is the signal tracked as a position
GenTrack(p) ==
  /\ pc[p] = "gen_track"
  /\ pc' = [pc EXCEPT ![p] =
       IF /\ gen[p].signal.direction # "NONE"
          /\ gen[p].signal.confidence > TrackThreshold
          /\ "positions" \in components
          /\ ~has_active_position(gen[p].symbol)
       THEN "gen_limit" ELSE "gen_loop"]
  /\ UNCHANGED <<now, signal_counts, inc, returned, ncalls, db_signal_counts, quotaVars,
                 posVars, genVars, botVars, indVars, aiVars, colVars, runVars>>

\* lines 141-144: the tracker's limit
GenLimit(p) ==
  /\ pc[p] = "gen_limit"
  /\ TrackerIncrementOp(gen[p].symbol)
  /\ pc' = [pc EXCEPT ![p] =
       IF signal_limits'[gen[p].symbol].count <= signal_limits'[gen[p].symbol].limit
       THEN "gen_add" ELSE "gen_loop"]
  /\ UNCHANGED <<now, signal_counts, inc, ncalls, db_signal_counts, posVars, genVars, botVars, indVars, aiVars, colVars, runVars>>

\* lines 146-160: add_position
GenAdd(p) ==
  /\ pc[p] = "gen_add"
  /\ AddPosition(gen[p].symbol, gen[p].signal.entry_price, gen[p].signal.direction,
                 gen[p].signal.id)
  /\ pc' = [pc EXCEPT ![p] = "gen_loop"]
  /\ UNCHANGED <<now, signal_counts, inc, returned, ncalls, db_signal_counts, quotaVars,
                 genVars, botVars, indVars, aiVars, colVars, runVars>>

----------------------------------------------------------------------------
(* TechnicalIndicators.calculate_indicators for one symbol and timeframe.    *)
(* The candles are known by their number, 1 the oldest; closing prices are   *)
(* taken to vary, so a rolling mean over a filled window is a number.       *)

\* candles explored
MaxCandles == 52

\* the defaults limit = 100 and min_required = 50, the RSI period and the ADX
\* period
Limit == 100
MinRequired == 50
RsiPeriod == 14
AdxPeriod == 7

IndFrame == UNCHANGED <<now, sgVars, returned, ncalls, db_signal_counts, quotaVars,
                        posVars, genVars, botVars, aiVars, colVars, runVars>>

\* the market-data collaborator stores one more candle
AddCandle ==
  /\ klines < MaxCandles
  /\ klines' = klines + 1
  /\ UNCHANGED <<indicator_rows, snapshot>>
  /\ IndFrame

\* SELECT ... ORDER BY open_time ASC LIMIT limit + 100: the oldest rows
QueryRows(n) == IF n < Limit + 100 THEN n ELSE Limit + 100

\* row i of the frame has an RSI: diff() leaves row 1 empty and the rolling
\* mean needs RsiPeriod deltas
RsiDefined(i) == i > RsiPeriod

\* row i has an ADX: the rolling sums need AdxPeriod rows, the rolling mean of
\* dx AdxPeriod sums
AdxDefined(i) == i >= 2 * AdxPeriod - 1

\* df.tail(limit): the candle numbers kept of a frame of m rows
TailRows(m) == {i \in 1..m : i > m - Limit}

\* lines 40-123 with the default arguments
CalculateIndicators ==
  LET m == QueryRows(klines) IN
  /\ IF m = 0
     THEN \* line 63: return None
          /\ snapshot' = {}
          /\ indicator_rows' = indicator_rows
     ELSE \* lines 65-119: the frame is computed whatever its length
          /\ indicator_rows' = indicator_rows \cup {i \in TailRows(m) : RsiDefined(i)}
          /\ snapshot' = {[rows |-> m, rsi |-> RsiDefined(m), adx |-> AdxDefined(m)]}
  /\ UNCHANGED klines
  /\ IndFrame

----------------------------------------------------------------------------
(* DatabaseManager.execute_query for an INSERT, as _save_signal issues it.  *)
(* cursor.execute writes the row in the connection's transaction, which     *)
(* stays open until a commit succeeds; either call may raise               *)
(* OperationalError 'database is locked' or another error.                  *)

\* values of max_retries explored
MaxRetries == 3

FetchModes == {"one", "all", "lastrowid", "none"}

ErrorKinds == {"locked", "other"}

QueryFrame == UNCHANGED <<now, sgVars, returned, ncalls, db_signal_counts, quotaVars,
                          posVars, genVars, botVars, indVars, aiVars, colVars, threads,
                          worker_thread>>

\* what the function returns for its fetch argument
FetchResult(fetch) ==
  IF fetch = "one" THEN "row" ELSE IF fetch = "all" THEN "rows"
  ELSE IF fetch = "lastrowid" THEN "lastrowid" ELSE "True"

\* the except branches of lines 265-275 for an error raised in attempt
\* q.attempt: sleep 0.1 * 2^attempt and go on, or raise
OnError(q, kind) ==
  IF kind = "locked" /\ q.attempt < q.max_retries - 1
  THEN [q EXCEPT !.at = "sleep", !.slept = Append(@, 2 ^ q.attempt)]
  ELSE [q EXCEPT !.at = "raised", !.result = kind]

\* line 245: for attempt in range(max_retries); an empty range falls
\* through to the end of the function, which returns None
EqEnter ==
  /\ query.at = "call"
  /\ query' = IF query.max_retries <= 0
              THEN [query EXCEPT !.at = "returned", !.result = "None"]
              ELSE [query EXCEPT !.at = "execute"]
  /\ QueryFrame

\* lines 247-250: cursor.execute succeeds
EqExecute ==
  /\ query.at = "execute"
  /\ query' = [query EXCEPT !.executions = @ + 1, !.pending = @ + 1,
                            !.at = IF query.commit THEN "commit" ELSE "fetch"]
  /\ QueryFrame

\* lines 247-250: cursor.execute raises
EqExecuteFails(kind) ==
  /\ query.at = "execute"
  /\ query' = OnError([query EXCEPT !.executions = @ + 1], kind)
  /\ QueryFrame

\* lines 252-253: conn.commit succeeds
EqCommit ==
  /\ query.at = "commit"
  /\ query' = [query EXCEPT !.committed = @ + query.pending, !.pending = 0,
                            !.at = "fetch"]
  /\ QueryFrame

\* lines 252-253: conn.commit raises, the transaction stays open
EqCommitFails(kind) ==
  /\ query.at = "commit"
  /\ query' = OnError([query EXCEPT !.commit_failures = @ + 1], kind)
  /\ QueryFrame

\* lines 255-262
EqReturn ==
  /\ query.at = "fetch"
  /\ query' = [query EXCEPT !.at = "returned", !.result = FetchResult(query.fetch)]
  /\ QueryFrame

\* line 271: time.sleep is over, the next attempt begins
EqSleep ==
  /\ query.at = "sleep"
  /\ query' = [query EXCEPT !.at = "execute", !.attempt = @ + 1]
  /\ QueryFrame

----------------------------------------------------------------------------
(* TechnicalIndicators._calculate_rsi and _calculate_ema on a frame.  Close *)
(* prices are whole numbers; a NaN of a column is the empty set.  The RSI   *)
(* 100 - 100/(1 + G/L) of window sums G and L equals 100*G/(G+L); the       *)
(* column holds its integer part.                                           *)

\* rows of the frames explored, and the close prices in them
MaxCloses == 16
ClosePrices == {100, 101}

\* delta = close_price.diff(), for the rows from the second on
Delta(c, i) == c[i] - c[i - 1]

\* gain = delta.mask(delta < 0, 0) and loss = -delta.mask(delta > 0, 0)
Gain(c, i) == IF Delta(c, i) < 0 THEN 0 ELSE Delta(c, i)

Loss(c, i) == IF Delta(c, i) > 0 THEN 0 ELSE 0 - Delta(c, i)

\* the sums behind rolling(window=period).mean() at row i: the period gains,
\* and the period losses, that end at row i
RECURSIVE RollingGain(_, _, _)
RollingGain(c, i, k) == IF k = 0 THEN 0 ELSE Gain(c, i) + RollingGain(c, i - 1, k - 1)

RECURSIVE RollingLoss(_, _, _)
RollingLoss(c, i, k) == IF k = 0 THEN 0 ELSE Loss(c, i) + RollingLoss(c, i - 1, k - 1)

\* lines 204-209 at row i: the first delta is NaN, so the rolling means are
\* NaN up to row period; rs = avg_gain / avg_loss is inf for avg_loss = 0,
\* which gives 100, and NaN for 0 / 0
Rsi(c, i) ==
  IF i <= RsiPeriod THEN {}
  ELSE LET avg_gain == RollingGain(c, i, RsiPeriod)
           avg_loss == RollingLoss(c, i, RsiPeriod)
       IN IF avg_gain = 0 /\ avg_loss = 0 THEN {}
          ELSE {(100 * avg_gain) \div (avg_gain + avg_loss)}

\* _calculate_rsi(df)
CalculateRsi ==
  /\ rsi_col' = [i \in 1..Len(closes) |-> Rsi(closes, i)]
  /\ UNCHANGED <<now, sgVars, returned, ncalls, db_signal_counts, quotaVars,
                 posVars, genVars, botVars, indVars, aiVars, closes, emas, crossovers, runVars>>

\* samples of the EMA columns explored, and the levels the EMAs take
MaxSamples == 3
EmaLevels == {1, 2}

\* crossover that asks the faster EMA to end strictly beyond the slower
CrossoverStrict(fast, slow, i) ==
  IF i = 1 THEN 0
  ELSE IF fast[i - 1] < slow[i - 1] /\ fast[i] > slow[i] THEN 1
  ELSE IF fast[i - 1] > slow[i - 1] /\ fast[i] < slow[i] THEN 0 - 1
  ELSE 0

\* lines 239-259: the column starts as 0 and the loop over range(1, len(df))
\* sets row i from rows i-1 and i of the two EMAs
Crossover(fast, slow, i) ==
  IF i = 1 THEN 0
  ELSE IF fast[i - 1] < slow[i - 1] /\ fast[i] >= slow[i] THEN 1
  ELSE IF fast[i - 1] > slow[i - 1] /\ fast[i] <= slow[i] THEN 0 - 1
  ELSE 0

\* _calculate_ema(df) from the three EMA columns on
CalculateEma ==
  /\ crossovers' =
       [short_medium |-> [i \in 1..Len(emas.short) |->
                            Crossover(emas.short, emas.medium, i)],
        medium_long |-> [i \in 1..Len(emas.medium) |->
                           Crossover(emas.medium, emas.long, i)]]
  /\ UNCHANGED <<now, sgVars, returned, ncalls, db_signal_counts, quotaVars,
                 posVars, genVars, botVars, indVars, aiVars, closes, rsi_col, emas, runVars>>

----------------------------------------------------------------------------
(* EnhancedAIModel.predict.  RSI and ADX are in points, MACD values in       *)
(* tenths, prices in units, confidence in hundredths, take_profit and       *)
(* stop_loss in hundredths of a price unit.  A key the dict lacks is the    *)
(* empty set; None is the empty set.                                        *)

\* predict calls explored for one indicators dict
MaxPredicts == 2

\* values of the keys of the indicators dict: 'macd' is a number, as
\* calculate_indicators gives it, or a dict with macd_line and signal_line
RsiValues == {{}, {0 - 50}, {25}, {30}, {70}, {75}}
AdxValues == {{}, {0}, {21}, {25}, {30}}
MacdValues ==
  {{}, {[shape |-> "number", macd_line |-> {20}, signal_line |-> {}]},
   {[shape |-> "dict", macd_line |-> {12}, signal_line |-> {8}]},
   {[shape |-> "dict", macd_line |-> {8}, signal_line |-> {60}]},
   {[shape |-> "dict", macd_line |-> {12}, signal_line |-> {}]}}
MacdSignalValues == {{}, {12}}
BollingerValues == {{}, {[upper |-> 101, lower |-> 99]}, {[upper |-> 110, lower |-> 90]}}
Ema50Values == {{}, {99}}
EmaShortValues == {{}, {0}, {100}}
EmaMediumValues == {{}, {99}}

\* rsi_text: the value under 'rsi' is a string, not a number (rsi then holds
\* no number)
IndicatorDicts ==
  [rsi : RsiValues, rsi_text : {FALSE}, adx : AdxValues, macd : MacdValues,
   macd_signal : MacdSignalValues, bollinger_bands : BollingerValues,
   ema_50 : Ema50Values, ema_short : EmaShortValues, ema_medium : EmaMediumValues]
  \cup
  [rsi : {{}}, rsi_text : {TRUE}, adx : AdxValues, macd : MacdValues,
   macd_signal : MacdSignalValues, bollinger_bands : BollingerValues,
   ema_50 : Ema50Values, ema_short : EmaShortValues, ema_medium : EmaMediumValues]

\* the thresholds of _select_best_model
RsiLow == 30
RsiHigh == 70
AdxTrend == 25

\* model selection with the ADX rule tried first
SelectBestModelAdxFirst(ind) ==
  IF ind.rsi_text THEN "momentum"
  ELSE IF \E v \in ind.adx : v > AdxTrend THEN "momentum"
  ELSE IF \E v \in ind.rsi : v < RsiLow \/ v > RsiHigh THEN "trend_reversal"
  ELSE "breakout"

\* model selection whose except branch returns the last model of the chain
SelectBestModelNoFallback(ind) ==
  IF ind.rsi_text THEN "breakout"
  ELSE IF \E v \in ind.rsi : v < RsiLow \/ v > RsiHigh THEN "trend_reversal"
  ELSE IF \E v \in ind.adx : v > AdxTrend THEN "momentum"
  ELSE "breakout"

\* _select_best_model: comparing a string with 30 raises TypeError, caught at
\* line 122
SelectBestModel(ind) ==
  IF ind.rsi_text THEN "momentum"
  ELSE IF \E v \in ind.rsi : v < RsiLow \/ v > RsiHigh THEN "trend_reversal"
  ELSE IF \E v \in ind.adx : v > AdxTrend THEN "momentum"
  ELSE "breakout"

\* _extract_latest_price: ema_50, else ema_short, else the placeholder 100
DefaultPrice == 100

ExtractLatestPrice(ind) ==
  IF ind.ema_50 # {} THEN CHOOSE v \in ind.ema_50 : TRUE
  ELSE IF ind.ema_short # {} THEN CHOOSE v \in ind.ema_short : TRUE
  ELSE DefaultPrice

\* the confidence returned as it was computed
UncappedConfidence(c) == c

\* min(confidence, 0.95)
MaxConfidence == 95

CapConfidence(c) == IF c < MaxConfidence THEN c ELSE MaxConfidence

\* the dict a model returns; tp and sl are the factors in hundredths
Prediction(direction, confidence, price, tp, sl, model_name) ==
  {[direction |-> direction, confidence |-> CapConfidence(confidence),
    entry_price |-> price, take_profit |-> price * tp, stop_loss |-> price * sl,
    model_name |-> model_name]}

\* trend reversal with the bounds 30 and 70 counted as oversold and overbought
PredictTrendReversalInclusive(ind, latest_price) ==
  IF ind.rsi_text \/ ind.rsi = {} THEN {}
  ELSE LET rsi == CHOOSE v \in ind.rsi : TRUE IN
       IF rsi <= 30
       THEN Prediction("LONG", 65 + (30 - rsi), latest_price, 103, 98, "trend_reversal")
       ELSE IF rsi >= 70
       THEN Prediction("SHORT", 65 + (rsi - 70), latest_price, 97, 102, "trend_reversal")
       ELSE {}

\* _predict_trend_reversal
PredictTrendReversal(ind, latest_price) ==
  IF ind.rsi_text \/ ind.rsi = {} THEN {}
  ELSE LET rsi == CHOOSE v \in ind.rsi : TRUE IN
       IF rsi < 30
       THEN Prediction("LONG", 65 + (30 - rsi), latest_price, 103, 98, "trend_reversal")
       ELSE IF rsi > 70
       THEN Prediction("SHORT", 65 + (rsi - 70), latest_price, 97, 102, "trend_reversal")
       ELSE {}

Abs(x) == IF x < 0 THEN 0 - x ELSE x

\* _predict_momentum: macd_line and signal_line come from the 'macd' dict,
\* signal_line else from 'macd_signal'; a 'macd' that is a number, or a dict
\* without macd_line, raises TypeError and line 235 returns None
PredictMomentum(ind, latest_price) ==
  IF ind.macd = {} THEN {}
  ELSE LET macd == CHOOSE m \in ind.macd : TRUE
           signal_line == IF macd.signal_line # {} THEN macd.signal_line ELSE ind.macd_signal
       IN IF macd.shape = "number" \/ macd.macd_line = {} THEN {}
          ELSE IF signal_line = {} THEN {}
          ELSE LET m == CHOOSE v \in macd.macd_line : TRUE
                   s == CHOOSE v \in signal_line : TRUE
               IN IF m > s
                  THEN Prediction("LONG", 68 + Abs(m - s), latest_price, 104, 97, "momentum")
                  ELSE IF m < s
                  THEN Prediction("SHORT", 68 + Abs(m - s), latest_price, 96, 103, "momentum")
                  ELSE {}

\* breakout that goes on whatever the width of the bands
PredictBreakoutAnyWidth(ind, latest_price) ==
  IF ind.bollinger_bands = {} THEN {}
  ELSE LET ema == IF ind.ema_50 # {} THEN ind.ema_50 ELSE ind.ema_medium
       IN IF \E adx \in ind.adx : adx # 0 /\ adx > 20
          THEN LET adx == CHOOSE v \in ind.adx : TRUE IN
               IF ema = {} THEN {}
               ELSE IF \E e \in ema : latest_price > e
               THEN Prediction("LONG", 72 + adx, latest_price, 105, 96, "breakout")
               ELSE Prediction("SHORT", 72 + adx, latest_price, 95, 104, "breakout")
          ELSE {}

\* breakout that is LONG also at a price equal to the EMA
PredictBreakoutAtOrAbove(ind, latest_price) ==
  IF ind.bollinger_bands = {} THEN {}
  ELSE LET bb == CHOOSE b \in ind.bollinger_bands : TRUE
           ema == IF ind.ema_50 # {} THEN ind.ema_50 ELSE ind.ema_medium
       IN IF (bb.upper - bb.lower) * 100 < 3 * latest_price
             /\ \E adx \in ind.adx : adx # 0 /\ adx > 20
          THEN LET adx == CHOOSE v \in ind.adx : TRUE IN
               IF ema = {} THEN {}
               ELSE IF \E e \in ema : latest_price >= e
               THEN Prediction("LONG", 72 + adx, latest_price, 105, 96, "breakout")
               ELSE Prediction("SHORT", 72 + adx, latest_price, 95, 104, "breakout")
          ELSE {}

\* _predict_breakout: band_width < 0.03 is compared on the exact quotient;
\* with neither ema_50 nor ema_medium the comparison raises TypeError and
\* line 287 returns None
PredictBreakout(ind, latest_price) ==
  IF ind.bollinger_bands = {} THEN {}
  ELSE LET bb == CHOOSE b \in ind.bollinger_bands : TRUE
           ema == IF ind.ema_50 # {} THEN ind.ema_50 ELSE ind.ema_medium
       IN IF (bb.upper - bb.lower) * 100 < 3 * latest_price
             /\ \E adx \in ind.adx : adx # 0 /\ adx > 20
          THEN LET adx == CHOOSE v \in ind.adx : TRUE IN
               IF ema = {} THEN {}
               ELSE IF \E e \in ema : latest_price > e
               THEN Prediction("LONG", 72 + adx, latest_price, 105, 96, "breakout")
               ELSE Prediction("SHORT", 72 + adx, latest_price, 95, 104, "breakout")
          ELSE {}

\* the dispatch of lines 91-98
ModelResult(model_name, ind, latest_price) ==
  IF model_name = "trend_reversal" THEN PredictTrendReversal(ind, latest_price)
  ELSE IF model_name = "momentum" THEN PredictMomentum(ind, latest_price)
  ELSE PredictBreakout(ind, latest_price)

\* predict: the model selected ("" when none was), the price extracted, the
\* prediction returned, and whether _store_prediction wrote it to the
\* predictions table
Predict(ind) ==
  IF ind = NoIndicators
  THEN [model |-> "", latest_price |-> 0, result |-> {}, stored |-> FALSE]
  ELSE LET best_model_name == SelectBestModel(ind)
           latest_price == ExtractLatestPrice(ind)
           prediction == IF latest_price = 0 THEN {}
                         ELSE ModelResult(best_model_name, ind, latest_price)
       IN [model |-> best_model_name, latest_price |-> latest_price,
           result |-> prediction, stored |-> prediction # {}]

\* one call of predict(symbol, timeframe, indicators)
PredictCall ==
  /\ Len(predictions) < MaxPredicts
  /\ predictions' = Append(predictions, Predict(indicators))
  /\ UNCHANGED <<now, sgVars, returned, ncalls, db_signal_counts, quotaVars,
                 posVars, genVars, botVars, indVars, indicators, colVars, runVars>>

\* latest prices given to a model called on its own
EntryPrices == {50, 100}

Models == {"trend_reversal", "momentum", "breakout"}

\* one of the three models called on its own with a latest price
ModelCall(model_name, latest_price) ==
  /\ predictions' = <<[model |-> model_name, latest_price |-> latest_price,
                       result |-> ModelResult(model_name, indicators, latest_price),
                       stored |-> FALSE]>>
  /\ UNCHANGED <<now, sgVars, returned, ncalls, db_signal_counts, quotaVars,
                 posVars, genVars, botVars, indVars, indicators, colVars, runVars>>

----------------------------------------------------------------------------
(* TradingBot: the two worker threads started by start().  A call into the   *)
(* market-data client or the Telegram API is an I/O call that takes time:   *)
(* it begins in one step and returns, or raises, in a later one.  The bot   *)
(* is running, with a Telegram token, throughout.                           *)

\* symbols get_active_symbols may return, and signals put on the queue
MaxSymbols == 12
MaxPuts == 2

\* symbols_per_batch, the cap of range(0, min(20, len(symbols)), ...), and
\* the length of the timeframes list
SymbolsPerBatch == 10
PassLimit == 20
NTimeframes == 5

\* the symbols one pass goes through: the first min(20, len(symbols))
PassLen(n) == IF n < PassLimit THEN n ELSE PassLimit

BotFrame == UNCHANGED <<now, sgVars, returned, ncalls, db_signal_counts, quotaVars,
                        posVars, genVars, indVars, aiVars, colVars, runVars>>

\* lines 289-296: the components are looked up under the lock
SigCheckComponents ==
  /\ spc = "start"
  /\ component_lock = "free"
  /\ spc' = "symbols"
  /\ UNCHANGED <<component_lock, pass, evaluated, tpc, signal_queue, puts, handed>>
  /\ BotFrame

\* lines 304-314: the pass starts with the list of active symbols
SigGetSymbols(n) ==
  /\ spc = "symbols"
  /\ component_lock = "free"
  /\ IF n = 0
     THEN UNCHANGED <<spc, pass, evaluated>>
     ELSE /\ spc' = "load"
          /\ pass' = [n |-> n, k |-> 1, tf |-> 0]
          /\ evaluated' = {}
  /\ UNCHANGED <<component_lock, tpc, signal_queue, puts, handed>>
  /\ BotFrame

\* after symbol k: the next symbol of the batch, or the delay after the batch
AfterSymbol(ps) ==
  IF ps.k = PassLen(ps.n) \/ ps.k % SymbolsPerBatch = 0
  THEN <<"batch_delay", ps>>
  ELSE <<"load", [ps EXCEPT !.k = @ + 1, !.tf = 0]>>

\* lines 322-324, 48-52: the loop body of a symbol begins; get_klines is
\* called under the lock
SigLoadBegin ==
  /\ spc = "load"
  /\ component_lock = "free"
  /\ component_lock' = "signals"
  /\ spc' = "load_io"
  /\ evaluated' = evaluated \cup {pass.k}
  /\ UNCHANGED <<pass, tpc, signal_queue, puts, handed>>
  /\ BotFrame

\* lines 53-71, 324-325: get_klines returns, or raises and the symbol is skipped
SigLoadEnd(ok) ==
  /\ spc = "load_io"
  /\ component_lock' = "free"
  /\ IF ok
     THEN spc' = "tf" /\ pass' = [pass EXCEPT !.tf = 0]
     ELSE spc' = AfterSymbol(pass)[1] /\ pass' = AfterSymbol(pass)[2]
  /\ UNCHANGED <<evaluated, tpc, signal_queue, puts, handed>>
  /\ BotFrame

\* lines 329-332: the next timeframe; get_klines is called under the lock
SigFetchBegin ==
  /\ spc = "tf"
  /\ pass.tf < NTimeframes
  /\ component_lock = "free"
  /\ component_lock' = "signals"
  /\ spc' = "fetch_io"
  /\ UNCHANGED <<pass, evaluated, tpc, signal_queue, puts, handed>>
  /\ BotFrame

\* lines 332-338: get_klines returns enough candles, too few (then
\* get_historical_klines is called, still under the lock), or raises, which
\* leaves the with block and is caught at line 350
SigFetchEnd(outcome) ==
  /\ spc = "fetch_io"
  /\ IF outcome = "enough"
     THEN component_lock' = "free" /\ spc' = "tf" /\ pass' = [pass EXCEPT !.tf = @ + 1]
     ELSE IF outcome = "short"
     THEN component_lock' = component_lock /\ spc' = "hist_io" /\ pass' = pass
     ELSE component_lock' = "free" /\ spc' = "retry" /\ pass' = pass
  /\ UNCHANGED <<evaluated, tpc, signal_queue, puts, handed>>
  /\ BotFrame

\* lines 338-340: get_historical_klines returns, or raises
SigHistEnd(ok) ==
  /\ spc = "hist_io"
  /\ component_lock' = "free"
  /\ IF ok
     THEN spc' = "tf" /\ pass' = [pass EXCEPT !.tf = @ + 1]
     ELSE spc' = "retry" /\ pass' = pass
  /\ UNCHANGED <<evaluated, tpc, signal_queue, puts, handed>>
  /\ BotFrame

\* line 329: the timeframes of the symbol are done
SigNextSymbol ==
  /\ spc = "tf"
  /\ pass.tf = NTimeframes
  /\ spc' = AfterSymbol(pass)[1]
  /\ pass' = AfterSymbol(pass)[2]
  /\ UNCHANGED <<component_lock, evaluated, tpc, signal_queue, puts, handed>>
  /\ BotFrame

\* lines 317, 345: the delay after a batch, then the next batch or the end of
\* the pass
SigBatchDelay ==
  /\ spc = "batch_delay"
  /\ IF pass.k = PassLen(pass.n)
     THEN spc' = "interval" /\ pass' = pass
     ELSE spc' = "load" /\ pass' = [pass EXCEPT !.k = @ + 1, !.tf = 0]
  /\ UNCHANGED <<component_lock, evaluated, tpc, signal_queue, puts, handed>>
  /\ BotFrame

\* lines 348 and 352: the sleep after a pass, or after an exception
SigSleep ==
  /\ spc \in {"interval", "retry"}
  /\ spc' = "symbols"
  /\ UNCHANGED <<component_lock, pass, evaluated, tpc, signal_queue, puts, handed>>
  /\ BotFrame

\* a producer puts a signal on signal_queue; id tells the signals apart
PutSignal(s) ==
  /\ puts < MaxPuts
  /\ puts' = puts + 1
  /\ signal_queue' = Append(signal_queue, [id |-> puts + 1, symbol |-> s])
  /\ UNCHANGED <<component_lock, spc, pass, evaluated, tpc, handed>>
  /\ BotFrame

\* line 231: signal_queue.get
TgGet ==
  /\ tpc.at = "get"
  /\ signal_queue # << >>
  /\ tpc' = [at |-> "lock", symbol |-> Head(signal_queue).symbol,
             id |-> Head(signal_queue).id]
  /\ signal_queue' = Tail(signal_queue)
  /\ UNCHANGED <<component_lock, spc, pass, evaluated, puts, handed>>
  /\ BotFrame

\* lines 232-236, telegram_adapter 247-266: the lock is taken and
\* send_signal_notification begins: it counts the signal in the tracker and
\* then posts the message
TgSendBegin ==
  /\ tpc.at = "lock"
  /\ component_lock = "free"
  /\ component_lock' = "telegram"
  /\ tpc' = [tpc EXCEPT !.at = "send_io"]
  /\ handed' = Append(handed, [id |-> tpc.id, symbol |-> tpc.symbol,
                                outcome |-> "pending"])
  /\ TrackerIncrementOp(tpc.symbol)
  /\ UNCHANGED <<now, sgVars, ncalls, db_signal_counts, posVars, genVars,
                 spc, pass, evaluated, signal_queue, puts, indVars, aiVars, colVars, runVars>>

\* what a call of send_signal_notification can end in: every message sent,
\* False returned (send_message caught its error), or an exception
Outcomes == {"sent", "failed", "raised"}

\* the end of the call, with a signal that was not delivered put back on
\* the queue
TgSendEndRequeue(outcome) ==
  /\ tpc.at = "send_io"
  /\ component_lock' = "free"
  /\ tpc' = [tpc EXCEPT !.at = "get"]
  /\ handed' = [handed EXCEPT ![Len(handed)].outcome = outcome]
  /\ signal_queue' = IF outcome = "sent" THEN signal_queue
                     ELSE Append(signal_queue, [id |-> tpc.id, symbol |-> tpc.symbol])
  /\ UNCHANGED <<spc, pass, evaluated, puts>>
  /\ BotFrame

\* lines 236-239: the post returns or raises (caught at line 237); the lock
\* is released and the queue item is marked done
TgSendEnd(outcome) ==
  /\ tpc.at = "send_io"
  /\ component_lock' = "free"
  /\ tpc' = [tpc EXCEPT !.at = "get"]
  /\ handed' = [handed EXCEPT ![Len(handed)].outcome = outcome]
  /\ UNCHANGED <<spc, pass, evaluated, signal_queue, puts>>
  /\ BotFrame

----------------------------------------------------------------------------
\* concurrent callers of SignalGenerator._increment_signal_count
NextIncr ==
  \/ \E p \in Procs, s \in Symbols : IncCall(p, s)
  \/ \E p \in Procs : IncSelect(p)
  \/ \E p \in Procs : IncUpdate(p)
  \/ \E p \in Procs : IncInsert(p)

SpecIncr == Init /\ [][NextIncr]_vars

\* one caller at a time: the increment functions called one after the other,
\* over several days
Caller == CHOOSE p \in Procs : TRUE

NextSeq ==
  \/ \E s \in Symbols : IncCall(Caller, s)
  \/ IncSelect(Caller)
  \/ IncUpdate(Caller)
  \/ IncInsert(Caller)
  \/ \E s \in Symbols : DbIncrement(s)
  \/ Tick

SpecSeq == Init /\ [][NextSeq]_vars

\* the PositionTracker's signal limits, called one operation at a time
NextQuota ==
  \/ \E s \in Symbols : TrackerIncrement(s)
  \/ \E s \in Symbols, l \in Limits : UpdateSignalLimit(s, l)
  \/ Tick

SpecQuota == Init /\ [][NextQuota]_vars

----------------------------------------------------------------------------
(* Database: the queue of operations and the worker thread _process_queue.  *)

WorkerFrame == UNCHANGED <<now, sgVars, returned, ncalls, db_signal_counts, quotaVars,
                           posVars, genVars, botVars, indVars, aiVars, colVars, threads,
                           query>>

\* line 70 and the failures of the connection's commit that are explored
BatchSize == 50
MaxFaults == 1

\* _queue_operation, lines 134-135: the item is put on the queue, whatever
\* running is; with need_result the caller then blocks in result_queue.get()
QueueOperation(o, need_result) ==
  /\ worker_thread.need[o] = "none"
  /\ worker_thread' = [worker_thread EXCEPT
        !.queue = Append(@, o),
        !.need[o] = IF need_result THEN "result" ELSE "no_result"]
  /\ WorkerFrame

\* close, lines 293-296: running is set to False and the worker is joined
\* for at most five seconds
DbClose ==
  /\ worker_thread.running
  /\ worker_thread' = [worker_thread EXCEPT !.running = FALSE]
  /\ WorkerFrame

\* line 73: the test of the while loop; lines 116-117 after the loop
WkLoop ==
  /\ worker_thread.at = "loop"
  /\ worker_thread' = [worker_thread EXCEPT
        !.at = IF worker_thread.running THEN "get" ELSE "stopped"]
  /\ WorkerFrame

\* lines 80-83 and 87-88: an item is taken into the batch; the batch is
\* processed when it is full or when more than batch_timeout has passed
\* since the last processing
WkGet(due) ==
  /\ worker_thread.at = "get"
  /\ worker_thread.queue # << >>
  /\ LET batch == Append(worker_thread.batch, Head(worker_thread.queue)) IN
     worker_thread' = [worker_thread EXCEPT
        !.queue = Tail(@), !.batch = batch,
        !.at = IF Len(batch) >= BatchSize \/ due THEN "process" ELSE "loop"]
  /\ WorkerFrame

\* lines 84-88: queue.Empty after batch_timeout, so a batch that is not
\* empty is due
WkEmpty ==
  /\ worker_thread.at = "get"
  /\ worker_thread.queue = << >>
  /\ worker_thread' = [worker_thread EXCEPT
        !.at = IF worker_thread.batch # << >> THEN "process" ELSE "loop"]
  /\ WorkerFrame

\* the operations of the batch run once more each, and each result queue
\* gets one more tuple, (True, result) or (False, error)
RunBatch(w) ==
  LET inBatch(o) == \E i \in 1..Len(w.batch) : w.batch[i] = o IN
  [w EXCEPT
     !.executed = [o \in Ops |-> IF inBatch(o) THEN @[o] + 1 ELSE @[o]],
     !.results = [o \in Ops |-> IF inBatch(o) /\ w.need[o] = "result"
                                THEN @[o] + 1 ELSE @[o]]]

\* lines 89-101: the batch is executed inside "with conn" and cleared
WkProcess ==
  /\ worker_thread.at = "process"
  /\ worker_thread' = [RunBatch(worker_thread) EXCEPT !.batch = << >>, !.at = "loop"]
  /\ WorkerFrame

\* lines 89-98 and 103-112: the commit at the end of "with conn" raises;
\* the outer except reopens the connection and the batch is kept
WkProcessFails ==
  /\ worker_thread.at = "process"
  /\ worker_thread.faults < MaxFaults
  /\ worker_thread' = [RunBatch(worker_thread) EXCEPT !.faults = @ + 1, !.at = "loop"]
  /\ WorkerFrame

\* the steps of the worker thread
WorkerStep ==
  \/ WkLoop
  \/ \E due \in BOOLEAN : WkGet(due)
  \/ WkEmpty
  \/ WkProcess
  \/ WkProcessFails

NextWorker ==
  \/ \E o \in Ops, need_result \in BOOLEAN : QueueOperation(o, need_result)
  \/ DbClose
  \/ WkLoop
  \/ \E due \in BOOLEAN : WkGet(due)
  \/ WkEmpty
  \/ WkProcess
  \/ WkProcessFails

\* the worker thread keeps being scheduled
SpecWorker == Init /\ [][NextWorker]_vars /\ WF_vars(WorkerStep)

\* increments and limit overrides of both quota stores on one day
NextOverride ==
  \/ \E s \in Symbols : TrackerIncrement(s)
  \/ \E s \in Symbols, l \in Limits : UpdateSignalLimit(s, l)
  \/ \E s \in Symbols : DbIncrement(s)
  \/ \E s \in Symbols, l \in Limits : DbSetMaxSignals(s, l)

SpecOverride == Init /\ [][NextOverride]_vars

\* increment_signal_count alone, over several days
NextTrackerIncr ==
  \/ \E s \in Symbols : TrackerIncrement(s)
  \/ Tick

SpecTrackerIncr == Init /\ [][NextTrackerIncr]_vars

\* two workers in generate_signals; the host has set min_confidence and
\* components, or has left them unset
Workers == 1..2

InitHost ==
  /\ InitStores
  /\ indicators = NoIndicators
  /\ predictions = << >>
  /\ min_confidence \in {{}, {65}}
  /\ components \in {{}, {"positions"}}

NextGen ==
  \/ \E p \in Workers, s \in Symbols, n \in 1..MaxTimeframes : GenCall(p, s, n)
  \/ \E p \in Workers, pr \in Predictions : GenPredict(p, pr)
  \/ \E p \in Workers : GenReturn(p)
  \/ \E p \in Workers : IncSelect(p)
  \/ \E p \in Workers : IncUpdate(p)
  \/ \E p \in Workers : IncInsert(p)
  \/ \E p \in Workers : GenTrack(p)
  \/ \E p \in Workers : GenLimit(p)
  \/ \E p \in Workers : GenAdd(p)

SpecGen == InitHost /\ [][NextGen]_vars

\* generate_signals called by one worker, one call after the other
NextGenSeq ==
  \/ \E s \in Symbols, n \in 1..MaxTimeframes : GenCall(Caller, s, n)
  \/ \E pr \in Predictions : GenPredict(Caller, pr)
  \/ GenReturn(Caller)
  \/ IncSelect(Caller)
  \/ IncUpdate(Caller)
  \/ IncInsert(Caller)
  \/ GenTrack(Caller)
  \/ GenLimit(Caller)
  \/ GenAdd(Caller)

SpecGenSeq == InitHost /\ [][NextGenSeq]_vars

\* telegram_adapter lines 247-266 for a signal generate_signals has
\* returned: send_signal_notification counts it in the tracker when the
\* positions component is there
NotifyEmitted ==
  \E r \in signals :
    /\ pc[Caller] = "idle"
    /\ \A i \in 1..Len(handed) : handed[i].id # r.id
    /\ handed' = Append(handed, [id |-> r.id, symbol |-> r.symbol, outcome |-> "sent"])
    /\ IF "positions" \in components
       THEN TrackerIncrementOp(r.symbol)
       ELSE UNCHANGED <<quotaVars, returned>>
    /\ UNCHANGED <<now, sgVars, ncalls, db_signal_counts, posVars, genVars,
                   component_lock, spc, pass, evaluated, tpc, signal_queue, puts,
                   indVars, aiVars, colVars, runVars>>

\* generate_signals called by one worker, and each signal it returned
\* notified
NextPipeline ==
  \/ NextGenSeq
  \/ NotifyEmitted

SpecPipeline == InitHost /\ [][NextPipeline]_vars

\* the position operations of the PositionTracker, one at a time
NextPos ==
  \/ DoAddPosition
  \/ DoConfirmPosition
  \/ DoClosePosition

SpecPos == Init /\ [][NextPos]_vars

\* the tracker's operations over a store that may raise on a write
NextPersist ==
  \/ DoAddSignalled
  \/ DoConfirmPosition
  \/ DoClosePosition
  \/ DoAddPositionFails
  \/ DoConfirmPositionFails
  \/ DoClosePositionFails
  \/ \E s \in Symbols : TrackerIncrementFails(s)

SpecPersist == Init /\ [][NextPersist]_vars

\* the worker threads of the TradingBot
NextBot ==
  \/ SigCheckComponents
  \/ \E n \in 0..MaxSymbols : SigGetSymbols(n)
  \/ SigLoadBegin
  \/ \E ok \in BOOLEAN : SigLoadEnd(ok)
  \/ SigFetchBegin
  \/ \E outcome \in {"enough", "short", "raise"} : SigFetchEnd(outcome)
  \/ \E ok \in BOOLEAN : SigHistEnd(ok)
  \/ SigNextSymbol
  \/ SigBatchDelay
  \/ SigSleep
  \/ \E s \in Symbols : PutSignal(s)
  \/ TgGet
  \/ TgSendBegin
  \/ \E outcome \in Outcomes : TgSendEnd(outcome)

SpecBot == Init /\ [][NextBot]_vars

\* the indicator engine over a growing candle history
NextInd ==
  \/ AddCandle
  \/ CalculateIndicators

SpecInd == Init /\ [][NextInd]_vars

\* predict called again and again on one indicators dict
InitPredict ==
  /\ InitStores
  /\ min_confidence = {}
  /\ components = {}
  /\ indicators \in IndicatorDicts
  /\ predictions = << >>

NextPredict == PredictCall

SpecPredict == InitPredict /\ [][NextPredict]_vars

\* each model called on its own
NextModels == \E model_name \in Models, latest_price \in EntryPrices :
                ModelCall(model_name, latest_price)

SpecModels == InitPredict /\ [][NextModels]_vars

\* one confirm_position and one close_position call in two threads, over
\* positions created as generate_signals creates them
NextThreads ==
  \/ DoAddSignalled
  \/ \E x \in ConfirmIds : CfFind(x)
  \/ CfUpdate
  \/ CfCheck
  \/ CfAssign
  \/ \E s \in Symbols, e \in ExitPrices, why \in ExitReasons : ClBegin(s, e, why)
  \/ ClUpdate
  \/ ClDelete

SpecThreads == Init /\ [][NextThreads]_vars

\* one execute_query call for each max_retries, fetch and commit argument
InitQuery ==
  /\ InitCore
  /\ min_confidence = {}
  /\ components = {}
  /\ indicators = NoIndicators
  /\ predictions = << >>
  /\ closes = << >>
  /\ rsi_col = << >>
  /\ emas = NoEmas
  /\ crossovers = NoCrossovers
  /\ query \in {[IdleQuery EXCEPT !.at = "call", !.max_retries = m, !.fetch = f,
                                   !.commit = c]
                 : m \in 0..MaxRetries, f \in FetchModes, c \in BOOLEAN}

NextQuery ==
  \/ EqEnter
  \/ EqExecute
  \/ \E kind \in ErrorKinds : EqExecuteFails(kind)
  \/ EqCommit
  \/ \E kind \in ErrorKinds : EqCommitFails(kind)
  \/ EqReturn
  \/ EqSleep

SpecQuery == InitQuery /\ [][NextQuery]_vars

\* _calculate_rsi on every frame of close prices
InitRsi ==
  /\ InitCore
  /\ query = IdleQuery
  /\ min_confidence = {}
  /\ components = {}
  /\ indicators = NoIndicators
  /\ predictions = << >>
  /\ closes \in UNION {[1..n -> ClosePrices] : n \in RsiPeriod..MaxCloses}
  /\ rsi_col = << >>
  /\ emas = NoEmas
  /\ crossovers = NoCrossovers

NextRsi == CalculateRsi

SpecRsi == InitRsi /\ [][NextRsi]_vars

\* _calculate_ema on every triple of EMA columns
InitEma ==
  /\ InitCore
  /\ query = IdleQuery
  /\ min_confidence = {}
  /\ components = {}
  /\ indicators = NoIndicators
  /\ predictions = << >>
  /\ closes = << >>
  /\ rsi_col = << >>
  /\ emas \in UNION {[short : [1..n -> EmaLevels], medium : [1..n -> EmaLevels],
                      long : [1..n -> EmaLevels]] : n \in 0..MaxSamples}
  /\ crossovers = NoCrossovers

NextEma == CalculateEma

SpecEma == InitEma /\ [][NextEma]_vars

\* the position operations together with the exit evaluation
NextExit ==
  \/ DoAddSignalled
  \/ DoConfirmPosition
  \/ DoClosePosition
  \/ DoCheckExitConditions

SpecExit == Init /\ [][NextExit]_vars

----------------------------------------------------------------------------
(* Properties                                                               *)

Min(a, b) == IF a < b THEN a ELSE b

\* no call of SignalGenerator._increment_signal_count is in progress
AllReturned == \A p \in Procs : pc[p] = "idle"

\* the counts stored for (symbol, date) by the throttle of that function
StoredCounts(impl, s, d) ==
  IF impl = "SignalGenerator" THEN {r.count : r \in SGSelect(s, d)}
  ELSE {r.count : r \in DbSelect(s, d)}

Throttles == {"SignalGenerator", "Database"}

\* C1: with max_count = 3, under every interleaving of concurrent
\* _increment_signal_count calls for one symbol and day, the stored count never
\* exceeds 3 and exactly 3 of the calls return true (never more than 3, and 3
\* once at least 3 calls have returned).
C1_ConcurrentThrottle ==
  \A s \in Symbols, d \in Dates :
    LET r == returned[<<"SignalGenerator", s, d>>] IN
    /\ \A c \in StoredCounts("SignalGenerator", s, d) : c <= 3
    /\ r.t <= 3
    /\ (AllReturned /\ r.n >= 3) => r.t = 3

\* C3: the tracker's count of a symbol stays within 0..limit in every state
\* reached by increment_signal_count calls.
C3_CountWithinLimit ==
  \A s \in DOMAIN signal_limits :
    /\ 0 <= signal_limits[s].count
    /\ signal_limits[s].count <= signal_limits[s].limit

\* C4: sequential increments of a symbol on one day return true for the 1st,
\* 2nd and 3rd call and false from the 4th on, and the stored count is 3 from
\* the 3rd call on.
C4_FourthIncrementFalse ==
  \A impl \in Throttles, s \in Symbols, d \in Dates :
    LET r == returned[<<impl, s, d>>] IN
    /\ r.t = Min(r.n, 3)
    /\ r.n >= 3 => StoredCounts(impl, s, d) = {3}

\* C5: for a symbol whose counter was used on an earlier date, the first
\* increment on a new date returns true and creates the counter of
\* (symbol, new date).
C5_DailyResetByKey ==
  \A impl \in Throttles, s \in Symbols, d0 \in Dates, d \in Dates :
    (d0 < d /\ returned[<<impl, s, d0>>].n > 0 /\ returned[<<impl, s, d>>].n > 0)
      => /\ returned[<<impl, s, d>>].t >= 1
         /\ StoredCounts(impl, s, d) # {}

\* the tracker holds position x and it is unconfirmed (PENDING) / confirmed
PendingInMemory(act, x) == \E i \in 1..Len(act) : act[i].id = x /\ ~act[i].confirmed
ConfirmedInMemory(act, x) == \E i \in 1..Len(act) : act[i].id = x /\ act[i].confirmed

\* the persisted record x is OPEN with the given confirmed flag / is CLOSED
OpenRecord(tbl, x, c) == \E r \in tbl : r.id = x /\ r.status = "OPEN" /\ r.confirmed = c
ClosedRecord(tbl, x) == \E r \in tbl : r.id = x /\ r.status = "CLOSED"

\* C6: add_position for a symbol that already has a PENDING or CONFIRMED
\* position fails and leaves the existing position unchanged.
C6_CreateRejectedWhileOpen ==
  [][\A s \in Symbols, o \in Orders, g \in SignalIds :
       (has_active_position(s) /\ AddPosition(s, o.price, o.direction, g))
         => (~ret'.ok /\ positions' = positions /\ active_positions' = active_positions)]_vars

\* C7: in every state each symbol has at most one non-CLOSED position, in
\* active_positions and among the persisted rows with status OPEN.
C7_OneOpenPositionPerSymbol ==
  \A s \in Symbols :
    /\ Cardinality({i \in 1..Len(active_positions) : active_positions[i].symbol = s}) <= 1
    /\ Cardinality({r \in positions : r.symbol = s /\ r.status = "OPEN"}) <= 1

\* C9: confirm_position(x) on the PENDING position x reports success and makes
\* it CONFIRMED in memory and in the store; a second confirm_position(x) right
\* after a successful one succeeds again and changes nothing.
C9_ConfirmIdempotent ==
  [][\A x \in ConfirmIds :
       /\ (PendingInMemory(active_positions, x) /\ OpenRecord(positions, x, 0)
             /\ ConfirmPosition(x))
            => (ret'.ok /\ ConfirmedInMemory(active_positions', x)
                  /\ OpenRecord(positions', x, 1))
       /\ (ret.op = "confirm_position" /\ ret.arg = x /\ ret.ok
             /\ ConfirmedInMemory(active_positions, x) /\ ConfirmPosition(x))
            => (ret'.ok /\ positions' = positions /\ active_positions' = active_positions)]_vars

\* x names no position at all: it is no row's id and no row's signal_id
UnknownId(x) == ConfirmMatches(x) = {}

\* C10: confirm_position on an unknown id or on a CLOSED position reports
\* failure and changes no position in memory and no persisted record.
C10_ConfirmFailsOnClosedOrUnknown ==
  [][\A x \in ConfirmIds :
       ((UnknownId(x) \/ ClosedRecord(positions, x)) /\ ConfirmPosition(x))
         => (~ret'.ok /\ positions' = positions /\ active_positions' = active_positions)]_vars


\* the cap of (symbol, date): the row's max_count, 3 while there is no row
MaxCountOf(s, d) ==
  IF SGSelect(s, d) = {} THEN 3 ELSE (CHOOSE r \in SGSelect(s, d) : TRUE).max_count

C11_LifecycleOrder ==
  [][\A r \in positions : \A q \in positions' :
       q.id = r.id =>
         /\ (r.status = "OPEN" /\ q.status = "CLOSED") => r.confirmed = 1
         /\ r.status = "CLOSED" => q.status = "CLOSED"
         /\ r.confirmed = 1 => q.confirmed = 1]_vars

\* p is (exit - entry) / entry * 100 for LONG, (entry - exit) / entry * 100 for
\* SHORT, in hundredths of a percent rounded down
IsProfitPct(p, direction, entry, exit) ==
  LET gain == IF direction = "LONG" THEN exit - entry ELSE entry - exit IN
  /\ p * entry <= gain * 10000
  /\ gain * 10000 < (p + 1) * entry

\* C12: a successful close_position(symbol, exit_price, reason) leaves the
\* position's record CLOSED with that exit price, reason and the profit of its
\* direction, and the symbol without active position; a following add_position
\* for the symbol succeeds; close_position on a symbol without active position
\* fails and changes nothing.
C12_CloseFreesSlot ==
  [][\A s \in Symbols, e \in ExitPrices, why \in ExitReasons :
       /\ (has_active_position(s) /\ ClosePosition(s, e, why)) =>
            LET pos == active_positions[IndexOf(active_positions, s)] IN
            /\ ret'.ok
            /\ \E r \in positions' :
                 /\ r.id = pos.id /\ r.status = "CLOSED"
                 /\ r.exit_price = {e} /\ r.exit_reason = {why}
                 /\ \E p \in r.profit_loss_percent :
                      IsProfitPct(p, pos.direction, pos.entry_price, e)
            /\ IndexOf(active_positions', s) = 0
       /\ (~has_active_position(s) /\ ClosePosition(s, e, why)) =>
            (~ret'.ok /\ positions' = positions /\ active_positions' = active_positions)
       /\ \A o \in Orders, g \in SignalIds :
            (/\ ret.op = "close_position" /\ ret.ok
             /\ \E r \in positions : r.id = ret.id /\ r.symbol = s
             /\ AddPosition(s, o.price, o.direction, g))
              => (ret'.ok /\ IndexOf(active_positions', s) # 0)]_vars

\* a SHORT position was closed at a loss and its symbol has a new position
C12_Witness ==
  \E r \in positions :
    /\ r.status = "CLOSED" /\ r.position_type = "SHORT"
    /\ \E p \in r.profit_loss_percent : p < 0
    /\ ret.op = "add_position" /\ ret.ok
    /\ \E i \in 1..Len(active_positions) :
         active_positions[i].symbol = r.symbol /\ active_positions[i].id = ret.id

\* C13: check_exit_conditions returns None for a symbol without position and
\* for a symbol whose position is unconfirmed, whatever the price and the RSI.
C13_NoExitWhilePending ==
  [][\A s \in Symbols, c \in CheckPrices, rsi \in RsiReadings :
       LET i == IndexOf(active_positions, s) IN
       ((i = 0 \/ ~active_positions[i].confirmed) /\ CheckExitConditions(s, c, rsi))
         => ret' = NoExit]_vars

\* None was returned while the only position held is unconfirmed
C13_Witness ==
  /\ ret = NoExit
  /\ Len(active_positions) = 1
  /\ ~active_positions[1].confirmed

\* C14: for a confirmed position the first matching rule gives the result:
\* profit >= 10 percent take-profit, else profit <= -5 percent stop-loss, else
\* with an RSI reading LONG and RSI > 75 or SHORT and RSI < 25 indicator exit,
\* else None; the result carries the position, the price and the profit.
C14_ExitRuleOrder ==
  [][\A s \in Symbols, c \in CheckPrices, rsi \in RsiReadings :
       LET i == IndexOf(active_positions, s) IN
       ((i # 0 /\ active_positions[i].confirmed) /\ CheckExitConditions(s, c, rsi)) =>
         LET pos == active_positions[i]
             gain == IF pos.direction = "LONG" THEN c - pos.entry_price
                     ELSE pos.entry_price - c
             tp == gain * 100 >= 10 * pos.entry_price
             sl == gain * 100 <= (0 - 5) * pos.entry_price
             ind == \/ pos.direction = "LONG" /\ \E v \in rsi : v > 75
                    \/ pos.direction = "SHORT" /\ \E v \in rsi : v < 25
         IN /\ tp => (ret'.ok /\ ret'.reason = "Take profit hit")
            /\ (~tp /\ sl) => (ret'.ok /\ ret'.reason = "Stop loss hit")
            /\ (~tp /\ ~sl /\ ind) =>
                 (ret'.ok /\ ret'.reason \in {"RSI overbought", "RSI oversold"})
            /\ (~tp /\ ~sl /\ ~ind) => ret' = NoExit
            /\ ret'.ok => /\ ret'.id = pos.id /\ ret'.symbol = s /\ ret'.exit_price = c
                          /\ IsProfitPct(ret'.profit_pct, pos.direction, pos.entry_price, c)]_vars

\* an indicator exit was returned for a SHORT position
C14_Witness ==
  /\ ret.op = "check_exit_conditions" /\ ret.ok
  /\ ret.reason = "RSI oversold"

\* C15: when the persistence write of add_position, confirm_position,
\* close_position or increment_signal_count fails, the in-memory transition
\* of the operation has been applied all the same: the position is held
\* unconfirmed, is confirmed, is no longer held, the count is one higher.
C15_MemoryBeforePersistence ==
  [][/\ \A s \in Symbols, o \in Orders, g \in SignalIds :
          AddPositionFails(s, o.price, o.direction, g) =>
            \E i \in 1..Len(active_positions') :
              /\ active_positions'[i].symbol = s
              /\ active_positions'[i].signal_id = g
              /\ ~active_positions'[i].confirmed
     /\ \A x \in ConfirmIds :
          ConfirmPositionFails(x) =>
            active_positions'[FindPosition(active_positions, x)].confirmed
     /\ \A s \in Symbols, e \in ExitPrices, why \in ExitReasons :
          ClosePositionFails(s, e, why) => IndexOf(active_positions', s) = 0
     /\ \A s \in Symbols :
          TrackerIncrementFails(s) =>
            /\ s \in DOMAIN signal_limits'
            /\ s \in DOMAIN signal_limits =>
                 signal_limits'[s].count \in {signal_limits[s].count + 1, 1}]_vars

\* C16: component_lock is never held during an I/O call: not by the signal
\* thread while candles are fetched, not by the telegram thread while a
\* notification is sent.
C16_NoLockAcrossIO ==
  /\ spc \in {"load_io", "fetch_io", "hist_io"} => component_lock # "signals"
  /\ tpc.at = "send_io" => component_lock # "telegram"

\* C17: a pass of _process_signals, however it ends, has entered the loop
\* body of every symbol of its batches, also when one symbol raised.
C17_SymbolFailuresIsolated ==
  [][(spc' # spc /\ spc' \in {"interval", "retry"})
       => evaluated = 1..PassLen(pass.n)]_vars

\* C18: with fewer than min_required candles calculate_indicators returns
\* None and stores no indicator row.
C18_InsufficientData ==
  [][(klines < MinRequired /\ CalculateIndicators)
       => (snapshot' = {} /\ indicator_rows' = indicator_rows)]_vars

\* C19: the model selected is trend_reversal when the RSI is present and
\* below 30 or above 70, else momentum when the ADX is present and above 25,
\* else breakout; repeated calls on one snapshot select the same model.
C19_ModelSelectionOrder ==
  \A i \in 1..Len(predictions) :
    /\ (indicators # NoIndicators /\ ~indicators.rsi_text) =>
         predictions[i].model =
           IF \E v \in indicators.rsi : v < 30 \/ v > 70 THEN "trend_reversal"
           ELSE IF \E v \in indicators.adx : v > 25 THEN "momentum"
           ELSE "breakout"
    /\ predictions[i].model = predictions[1].model

\* two calls selected trend_reversal on a snapshot whose ADX is above 25
C19_Witness ==
  /\ Len(predictions) = 2
  /\ predictions[2].model = "trend_reversal"
  /\ \E v \in indicators.adx : v > 25

\* C20: every prediction returned has a confidence above 0 and at most 0.95, a
\* direction LONG or SHORT and the name of one of the three models.
C20_ConfidenceRange ==
  \A i \in 1..Len(predictions) : \A p \in predictions[i].result :
    /\ p.confidence > 0
    /\ p.confidence <= 95
    /\ p.direction \in {"LONG", "SHORT"}
    /\ p.model_name \in {"trend_reversal", "momentum", "breakout"}

\* a momentum prediction whose computed confidence was above 0.95
C20_Witness ==
  \E i \in 1..Len(predictions) : \E p \in predictions[i].result :
    /\ p.model_name = "momentum"
    /\ p.confidence = 95
    /\ \E m \in indicators.macd :
         \E a \in m.macd_line : \E b \in m.signal_line : 68 + Abs(a - b) > 95

\* the trend_reversal model called on its own with a numeric RSI
TrendReversalCalls ==
  {i \in 1..Len(predictions) :
     predictions[i].model = "trend_reversal" /\ indicators.rsi # {}}

\* C21: trend_reversal gives LONG for RSI < 30 with confidence
\* min(0.65 + (30-RSI)/100, 0.95), TP = entry*1.03 and SL = entry*0.98, SHORT
\* for RSI > 70 with confidence min(0.65 + (RSI-70)/100, 0.95), TP =
\* entry*0.97 and SL = entry*1.02, and null for 30 <= RSI <= 70; RSI 25 at
\* entry 100 gives LONG, 0.70, 103, 98
C21_TrendReversal ==
  \A i \in TrendReversalCalls : \A rsi \in indicators.rsi :
    LET p == predictions[i]
        e == p.latest_price
    IN /\ rsi < 30 =>
            p.result = {[direction |-> "LONG", confidence |-> Min(65 + (30 - rsi), 95),
                         entry_price |-> e, take_profit |-> e * 103,
                         stop_loss |-> e * 98, model_name |-> "trend_reversal"]}
       /\ rsi > 70 =>
            p.result = {[direction |-> "SHORT", confidence |-> Min(65 + (rsi - 70), 95),
                         entry_price |-> e, take_profit |-> e * 97,
                         stop_loss |-> e * 102, model_name |-> "trend_reversal"]}
       /\ (30 <= rsi /\ rsi <= 70) => p.result = {}
       /\ (rsi = 25 /\ e = 100) =>
            p.result = {[direction |-> "LONG", confidence |-> 70, entry_price |-> 100,
                         take_profit |-> 10300, stop_loss |-> 9800,
                         model_name |-> "trend_reversal"]}

\* Scenario A has been computed by the model called on its own
C21_Witness ==
  /\ TrendReversalCalls # {}
  /\ indicators.rsi = {25}
  /\ predictions[1].latest_price = 100
  /\ predictions[1].result # {}

\* the momentum model called on its own
MomentumCalls == {i \in 1..Len(predictions) : predictions[i].model = "momentum"}

\* the MACD line the snapshot carries, under 'macd' as a number or as the
\* macd_line of a dict, and the signal line, as the signal_line of the dict
\* or under 'macd_signal'
CarriedMacdLine == UNION {m.macd_line : m \in indicators.macd}

CarriedSignalLine ==
  IF \E m \in indicators.macd : m.signal_line # {}
  THEN UNION {m.signal_line : m \in indicators.macd}
  ELSE indicators.macd_signal

\* C22: whenever the snapshot carries a MACD line and a signal line, also as
\* the fields macd and macd_signal, momentum gives LONG for macd > signal
\* (TP = entry*1.04, SL = entry*0.97), SHORT for macd < signal (TP =
\* entry*0.96, SL = entry*1.03), null for equality, with confidence
\* min(0.68 + |macd-signal|/10, 0.95); 1.2 against 0.8 at entry 50 gives LONG,
\* 0.72, 52, 48.5
C22_Momentum ==
  \A i \in MomentumCalls : \A m \in CarriedMacdLine : \A s \in CarriedSignalLine :
    LET p == predictions[i]
        e == p.latest_price
    IN /\ m > s =>
            p.result = {[direction |-> "LONG", confidence |-> Min(68 + (m - s), 95),
                         entry_price |-> e, take_profit |-> e * 104,
                         stop_loss |-> e * 97, model_name |-> "momentum"]}
       /\ m < s =>
            p.result = {[direction |-> "SHORT", confidence |-> Min(68 + (s - m), 95),
                         entry_price |-> e, take_profit |-> e * 96,
                         stop_loss |-> e * 103, model_name |-> "momentum"]}
       /\ m = s => p.result = {}
       /\ (m = 12 /\ s = 8 /\ e = 50) =>
            p.result = {[direction |-> "LONG", confidence |-> 72, entry_price |-> 50,
                         take_profit |-> 5200, stop_loss |-> 4850,
                         model_name |-> "momentum"]}

\* the breakout model called on its own
BreakoutCalls == {i \in 1..Len(predictions) : predictions[i].model = "breakout"}

\* (upper - lower) / entry < 0.03 for the bands of the snapshot
TightBands(e) ==
  \E bb \in indicators.bollinger_bands : (bb.upper - bb.lower) * 100 < 3 * e

\* C23: with both Bollinger bands present, breakout goes on only if
\* band_width = (upper-lower)/entry < 0.03 and ADX, if present, is > 20, and
\* then returns confidence min(0.72 + ADX/100, 0.95); in every other case it
\* returns null; upper 101, lower 99, entry 100, ADX 30, EMA-long 99 give
\* LONG, 0.95, 105, 96
C23_Breakout ==
  \A i \in BreakoutCalls :
    LET p == predictions[i]
        e == p.latest_price
    IN /\ p.result # {} =>
            /\ TightBands(e)
            /\ \A adx \in indicators.adx : adx > 20
            /\ \E adx \in indicators.adx : \A r \in p.result :
                  r.confidence = Min(72 + adx, 95)
       /\ (~TightBands(e) \/ \E adx \in indicators.adx : adx <= 20) => p.result = {}
       /\ (TightBands(e) /\ (\E adx \in indicators.adx : adx > 20)
            /\ indicators.ema_50 \cup indicators.ema_medium # {}) => p.result # {}
       /\ (indicators.bollinger_bands = {[upper |-> 101, lower |-> 99]} /\ e = 100
            /\ indicators.adx = {30} /\ indicators.ema_50 = {99}) =>
            p.result = {[direction |-> "LONG", confidence |-> 95, entry_price |-> 100,
                         take_profit |-> 10500, stop_loss |-> 9600,
                         model_name |-> "breakout"]}

\* Scenario C has been computed by the model called on its own
C23_Witness ==
  /\ BreakoutCalls # {}
  /\ indicators.bollinger_bands = {[upper |-> 101, lower |-> 99]}
  /\ indicators.adx = {30}
  /\ indicators.ema_50 = {99}
  /\ predictions[1].latest_price = 100
  /\ predictions[1].result # {}

\* the EMA the breakout direction is taken against: 'ema_50', else
\* 'ema_medium'
EmaLongOrMedium ==
  IF indicators.ema_50 # {} THEN indicators.ema_50 ELSE indicators.ema_medium

\* C24: a prediction predict returns from the breakout model is LONG exactly
\* when its entry price is above EMA-long (EMA-medium when EMA-long is
\* absent) and SHORT otherwise, with TP = entry*1.05 and SL = entry*0.96 for
\* LONG and TP = entry*0.95 and SL = entry*1.04 for SHORT
C24_BreakoutDirection ==
  \A i \in 1..Len(predictions) : \A r \in predictions[i].result :
    predictions[i].model = "breakout" =>
      /\ r.direction \in {"LONG", "SHORT"}
      /\ r.direction = "LONG" <=> \E e \in EmaLongOrMedium : r.entry_price > e
      /\ r.direction = "LONG" =>
            /\ r.take_profit = r.entry_price * 105
            /\ r.stop_loss = r.entry_price * 96
      /\ r.direction = "SHORT" =>
            /\ r.take_profit = r.entry_price * 95
            /\ r.stop_loss = r.entry_price * 104

\* predict has returned a LONG breakout prediction
C24_Witness ==
  \E i \in 1..Len(predictions) : \E r \in predictions[i].result :
    /\ predictions[i].model = "breakout"
    /\ predictions[i].stored
    /\ r.direction = "LONG"

\* predict has returned a SHORT breakout prediction
C24_ShortReached ==
  \E i \in 1..Len(predictions) : \E r \in predictions[i].result :
    /\ predictions[i].model = "breakout"
    /\ predictions[i].stored
    /\ r.direction = "SHORT"

\* an input the given model requires is absent from the snapshot
RequiredInputAbsent(model_name) ==
  \/ model_name = "trend_reversal" /\ indicators.rsi = {}
  \/ model_name = "momentum"
       /\ (CarriedMacdLine = {} \/ CarriedSignalLine = {})
  \/ model_name = "breakout"
       /\ \/ indicators.bollinger_bands = {}
          \/ indicators.ema_50 \cup indicators.ema_medium = {}

\* C25: predict returns null and stores nothing whenever an input the
\* selected model requires is absent from the snapshot, and a prediction it
\* returns holds no value guessed in place of an absent input: its entry
\* price is a price of the snapshot
C25_NullOnAbsentInput ==
  \A i \in 1..Len(predictions) :
    LET p == predictions[i] IN
    /\ RequiredInputAbsent(p.model) => (p.result = {} /\ ~p.stored)
    /\ p.result = {} => ~p.stored
    /\ \A r \in p.result : r.entry_price \in indicators.ema_50 \cup indicators.ema_short

\* the part of C25 that holds: null, and nothing stored, on an absent input
C25_NullPart ==
  \A i \in 1..Len(predictions) :
    LET p == predictions[i] IN
    /\ RequiredInputAbsent(p.model) => (p.result = {} /\ ~p.stored)
    /\ p.result = {} => ~p.stored

\* C26: when model selection itself raises, the selector returns momentum:
\* predict goes on with the momentum model, not with no model nor another
C26_SelectionFallback ==
  \A i \in 1..Len(predictions) :
    indicators.rsi_text =>
      /\ predictions[i].model = "momentum"
      /\ predictions[i].latest_price # 0 =>
            predictions[i].result =
              PredictMomentum(indicators, predictions[i].latest_price)

\* selection has raised on an RSI that is no number, and the momentum model
\* has given a prediction
C26_Witness ==
  /\ indicators.rsi_text
  /\ Len(predictions) > 0
  /\ predictions[1].model = "momentum"
  /\ predictions[1].result # {}

\* C27: every row at which the 14-period window is filled has an RSI, a
\* value in [0,100], also when the window holds no losing delta or no price
\* change at all; the rows before that have none
C27_RsiRange ==
  \A i \in 1..Len(rsi_col) :
    IF i > RsiPeriod
    THEN rsi_col[i] # {} /\ \A v \in rsi_col[i] : 0 <= v /\ v <= 100
    ELSE rsi_col[i] = {}

\* the part of C27 that holds: an RSI that is there is in [0,100], a window
\* with a price change has one, a window without a losing delta gives 100,
\* and the rows before the window is filled have none
C27_RangeWhenDefined ==
  \A i \in 1..Len(rsi_col) :
    /\ \A v \in rsi_col[i] : 0 <= v /\ v <= 100
    /\ i <= RsiPeriod => rsi_col[i] = {}
    /\ (i > RsiPeriod /\ \E j \in (i - RsiPeriod + 1)..i : closes[j] # closes[j - 1])
         => rsi_col[i] # {}
    /\ (i > RsiPeriod /\ rsi_col[i] # {}
         /\ \A j \in (i - RsiPeriod + 1)..i : closes[j] >= closes[j - 1])
         => rsi_col[i] = {100}

\* col is the crossover column of the pair fast, slow
IsCrossover(col, fast, slow) ==
  /\ Len(col) = Len(fast)
  /\ \A i \in 1..Len(col) :
       /\ col[i] \in {0 - 1, 0, 1}
       /\ i = 1 => col[i] = 0
       /\ i > 1 =>
            /\ col[i] = 1 <=> (fast[i - 1] < slow[i - 1] /\ fast[i] >= slow[i])
            /\ col[i] = 0 - 1 <=> (fast[i - 1] > slow[i - 1] /\ fast[i] <= slow[i])

\* C28: for each adjacent EMA pair and every sample after the first, the
\* crossover is +1 exactly when the faster EMA was below the slower at the
\* sample before and is at or above it now, -1 exactly when it was above and
\* is at or below now, and 0 otherwise; the first sample is 0
C28_Crossover ==
  crossovers # NoCrossovers =>
    /\ IsCrossover(crossovers.short_medium, emas.short, emas.medium)
    /\ IsCrossover(crossovers.medium_long, emas.medium, emas.long)

\* a frame in which the short EMA comes up from below to the level of the
\* medium one, and the medium EMA falls from above to below the long one
C28_Witness ==
  /\ Len(crossovers.short_medium) = MaxSamples
  /\ \E i \in 2..MaxSamples :
       /\ crossovers.short_medium[i] = 1
       /\ emas.short[i] = emas.medium[i]
  /\ \E i \in 2..MaxSamples : crossovers.medium_long[i] = 0 - 1

\* C30: a signal taken from the queue is handed to send_signal_notification
\* at most once; whether the delivery failed or not it is not on the queue
\* again, and the thread is back at the queue, without the lock, for the
\* signals that follow
C30_FireAndForget ==
  /\ \A i, j \in 1..Len(handed) : handed[i].id = handed[j].id => i = j
  /\ \A k \in 1..Len(signal_queue) : \A i \in 1..Len(handed) :
       signal_queue[k].id # handed[i].id
  /\ \A i \in 1..Len(handed) :
       handed[i].outcome = "pending" <=> (i = Len(handed) /\ tpc.at = "send_io")
  /\ tpc.at = "get" => component_lock # "telegram"

\* a delivery has failed and the signal queued behind it has been delivered
C30_Witness ==
  /\ Len(handed) = 2
  /\ handed[1].outcome \in {"failed", "raised"}
  /\ handed[2].outcome = "sent"
  /\ signal_queue = << >>

\* the tracker would let one more signal of symbol s through
TrackerQuotaLeft(s) ==
  LET lim == WithDefault(ResetOldMem(signal_limits, now), s, now)
  IN lim[s].count < lim[s].limit

\* the worker is done with the signal it emitted: it leaves lines 132-160
\* for the next timeframe
SignalHandled(p) ==
  /\ pc[p] \in {"gen_track", "gen_limit", "gen_add"}
  /\ pc'[p] = "gen_loop"

C29_AboveSeventy ==
  [][LET sg == gen[Caller].signal
         s == gen[Caller].symbol
     IN (/\ SignalHandled(Caller)
         /\ sg.direction \in {"LONG", "SHORT"}
         /\ sg.confidence > TrackThreshold
         /\ "positions" \in components
         /\ ~has_active_position(s)
         /\ pc[Caller] = "gen_add" \/ TrackerQuotaLeft(s))
        => \E i \in 1..Len(active_positions') :
             /\ active_positions'[i].symbol = s
             /\ active_positions'[i].entry_price = sg.entry_price
             /\ active_positions'[i].direction = sg.direction
             /\ active_positions'[i].signal_id = sg.id
             /\ ~active_positions'[i].confirmed]_vars

\* C31: a confirm interleaved with a close of the same position ends as one
\* of the two sequential orders does: the UPDATE of confirm, which decides
\* its success, finds the position not yet CLOSED, and no CLOSED record has
\* its confirmed flag changed
C31_ConfirmCloseSerializable ==
  [][/\ \A r \in positions : \A q \in positions' :
          (q.id = r.id /\ r.status = "CLOSED") => q.confirmed = r.confirmed
     /\ (threads.confirm.at = "update" /\ threads'.confirm.at = "memory")
          => \A r \in ConfirmMatches(threads.confirm.x) : r.status = "OPEN"]_vars

\* C32: a write that execute_query retried after a 'database is locked'
\* failure, of the statement or of the commit, and then completed has taken
\* effect exactly once: one row of it is in the table
C32_RetryWritesOnce ==
  (query.at = "returned" /\ query.commit /\ query.slept # << >>) => query.committed = 1

\* the part of C32 that holds: retries after a locked statement alone leave
\* one row
C32_StatementRetryOnce ==
  (query.at = "returned" /\ query.commit /\ query.max_retries > 0
   /\ query.commit_failures = 0)
    => query.committed = 1

\* C33: execute_query makes at most max_retries attempts, sleeping
\* 0.1 * 2^attempt before each retry; it retries only a locked error with
\* attempts left, raises any other error and a locked error of the last
\* attempt, and returns only after the statement was executed, with the
\* result its fetch argument asks for
C33_RetryTerminates ==
  /\ query.attempt <= query.max_retries
  /\ query.executions <= query.max_retries
  /\ \A i \in 1..Len(query.slept) : query.slept[i] = 2 ^ (i - 1)
  /\ Len(query.slept) <= query.max_retries
  /\ query.at = "raised" =>
       \/ query.result = "other"
       \/ query.result = "locked" /\ query.attempt = query.max_retries - 1
  /\ query.at = "returned" =>
       /\ query.executions > 0
       /\ query.result = FetchResult(query.fetch)

\* the part of C33 that holds: the same for a positive max_retries
C33_PositiveRetries ==
  query.max_retries > 0 => C33_RetryTerminates

\* the entries of a dict
Entries(act) == {act[i] : i \in 1..Len(act)}

\* C34: after every add_position, confirm_position and close_position,
\* successful or failed, active_positions holds the positions of the
\* persisted OPEN rows, with their ids and confirmed flags, and
\* _load_active_positions gives the same dict after a restart
C34_MemoryMatchesStore ==
  /\ {[id |-> e.id, confirmed |-> e.confirmed] : e \in Entries(active_positions)}
       = {[id |-> r.id, confirmed |-> (r.confirmed = 1)]
          : r \in {q \in positions : q.status = "OPEN"}}
  /\ Entries(LoadActivePositions(positions)) = Entries(active_positions)

\* the calls of an increment function that returned true so far today
TrueToday(impl, s) == returned[<<impl, s, Date(now)>>].t

\* C35: with limit overrides interleaved with increments, also an override
\* below the count, count <= max_count holds in both quota stores and no
\* increment returns true while count >= max_count
C35_OverridePreservesQuota ==
  /\ [](/\ \A s \in DOMAIN signal_limits :
              signal_limits[s].count <= signal_limits[s].limit
        /\ \A r \in db_signal_counts : r.count <= r.max_count)
  /\ [][/\ \A s \in DOMAIN signal_limits :
              signal_limits[s].count >= signal_limits[s].limit
                => TrueToday("PositionTracker", s)' = TrueToday("PositionTracker", s)
        /\ \A r \in db_signal_counts :
              (r.date = Date(now) /\ r.count >= r.max_count)
                => TrueToday("Database", r.symbol)' = TrueToday("Database", r.symbol)]_vars

\* the tracker's count of symbol s, 0 while it has no entry
TrackerCount(s) == IF s \in DOMAIN signal_limits THEN signal_limits[s].count ELSE 0

\* every signal of s that generate_signals saved has been notified
AllNotified(s) ==
  \A r \in signals : r.symbol = s => \E i \in 1..Len(handed) : handed[i].id = r.id

C36_LowConfidenceOnce ==
  \A s \in Symbols :
    ("positions" \in components /\ pc[Caller] = "idle" /\ AllNotified(s)
     /\ \A r \in signals : r.symbol = s => r.confidence <= TrackThreshold)
      => TrackerCount(s) = Cardinality({r \in signals : r.symbol = s})

\* C37: check_exit_conditions is a pure query: whatever the symbol, the
\* price and the snapshot, a call leaves active_positions, signal_limits
\* and the persisted records as they were, so a recommendation to exit
\* closes or alters nothing
C37_ExitCheckIsPure ==
  [][ret'.op = "check_exit_conditions"
       => UNCHANGED <<active_positions, positions, signal_limits, signal_limits_tbl>>]_vars

\* an exit has been recommended for a position that is still held and OPEN
C37_Witness ==
  /\ ret.op = "check_exit_conditions" /\ ret.ok
  /\ \E i \in 1..Len(active_positions) :
       active_positions[i].id = ret.id /\ active_positions[i].confirmed
  /\ \E r \in positions : r.id = ret.id /\ r.status = "OPEN"

\* ids of the persisted records whose confirmed flag a step changes
FlagChangedRows ==
  {r.id : r \in {q \in positions :
                   \E n \in positions' : n.id = q.id /\ n.confirmed # q.confirmed}}

\* ids of the positions in memory whose confirmed flag a step changes
FlagChangedEntries ==
  {e.id : e \in {a \in Entries(active_positions) :
                   \E n \in Entries(active_positions') :
                     n.id = a.id /\ n.confirmed # a.confirmed}}

\* C38: a successful confirm_position(x) changes the confirmed flag of one
\* position only, the same one in memory and in the store, and that record
\* is OPEN: no record of another symbol and no CLOSED record that shares
\* the number x as id or signal_id is confirmed with it
C38_ConfirmsOnePosition ==
  [][(ret'.op = "confirm_position" /\ ret'.ok)
       => /\ FlagChangedRows \subseteq {ret'.id}
          /\ FlagChangedEntries \subseteq {ret'.id}
          /\ \A r \in positions : r.id = ret'.id => r.status = "OPEN"]_vars

\* the part of C38 that holds: in memory a successful confirm_position flags
\* the one position it returns, and the record of that position is OPEN
C38_MemoryConfirmsOne ==
  [][(ret'.op = "confirm_position" /\ ret'.ok)
       => /\ FlagChangedEntries \subseteq {ret'.id}
          /\ \A r \in positions : r.id = ret'.id => r.status = "OPEN"]_vars

\* C39: every operation submitted with need_result=True eventually has one
\* result, success or error, on its result queue and never more than one,
\* also when close() stops the worker around the submission; and what the
\* worker has taken into its batch is executed, not dropped
C39_EveryCallerAnswered ==
  /\ \A o \in Ops :
       (worker_thread.need[o] = "result") ~> (worker_thread.results[o] = 1)
  /\ [](\A o \in Ops : worker_thread.results[o] <= 1)
  /\ [](worker_thread.at = "stopped" => worker_thread.batch = << >>)

\* the part of C39 that holds: while close() is not called, every operation
\* submitted with need_result=True eventually has a result
C39_AnsweredWhileRunning ==
  ([]worker_thread.running)
    => \A o \in Ops :
         (worker_thread.need[o] = "result") ~> (worker_thread.results[o] >= 1)

====
